---- MODULE Spec2Model ----
(***************************************************************************)
(* Service-worker registration controller (src/src/sw/register.ts) and the *)
(* shared caching worker (sw.js) of di_web, as state machines.             *)
(*                                                                         *)
(*   Spec           the main-document side: registerServiceWorker with its *)
(*                  guards, the load listener, attemptRegistration with    *)
(*                  its retry timer, the updatefound / statechange         *)
(*                  listeners.                                             *)
(*   SpecUnregister unregisterServiceWorker, in every environment.         *)
(*   SpecCache      the worker side: cache namespaces and trimCache.       *)
(*   SpecTrims      the trimCache calls of overlapping fetch events.       *)
(*   SpecExpiry     isExpired, for every date header and cache name.       *)
(*   SpecCacheFirst cacheFirst on the static route, while time passes.     *)
(*   SpecNetworkFirst  networkFirst on the HTML and default routes, with   *)
(*                  the trims of the HTML route.                           *)
(*   SpecStale      staleWhileRevalidate on the locales route.             *)
(*   SpecSync       navigations, requests the fetch listener leaves to the *)
(*                  browser, trims and doBackgroundSync.                   *)
(*   SpecStores     the three strategies side by side.                     *)
(*   SpecNamespaces requests for one URL with and without an HTML          *)
(*                  accept header.                                         *)
(*   SpecReplay     doBackgroundSync over every content of the dynamic     *)
(*                  cache, and sync events with other tags.                *)
(*   SpecIsolation  cacheFirst for requests to allow-listed, look-alike,   *)
(*                  API and other hosts.                                   *)
(*   SpecDispatch   the fetch listener alone, for every request.           *)
(*   SpecActivate   the activate listener, for every set of caches.        *)
(*   SpecInstall    the install and message listeners.                     *)
(*   SpecPush       the push listener, for every payload.                  *)
(*   SpecClick      the notificationclick listener.                        *)
(*   SpecInfo       the banner service (src/src/info/info.web.ts): show,   *)
(*                  dismiss and the dismiss timer.                         *)
(*   SpecSubscribe  the banner service with its subscriptions.             *)
(*   SpecApp        initializeWebApp and initializeRevenueCat              *)
(*                  (src/src/initialize/initialize.ts), for every set of   *)
(*                  options.                                               *)
(***************************************************************************)
EXTENDS Integers, Sequences, FiniteSets, TLC

(***************************************************************************)
(* Bounds of the model.                                                    *)
(***************************************************************************)
\* largest maxRetries option that is enumerated (the option may also be
\* left out, which gives DEFAULT_MAX_RETRIES)
MaxRetriesBound == 2
\* number of new workers the platform may announce with updatefound
MaxWorkers == 1
\* granularity of the clock that drives the retry timer, in ms
TickMs == 1000
\* number of times the worker's clock is advanced
MaxClockSteps == 2
\* number of fetch events whose strategies run at the same time
MaxHandlers == 1
\* number of cache.put calls under way when a fetch event is dispatched
MaxPuts == 1
\* number of activations of a worker with this code
MaxActivations == 2
\* number of messages the worker receives
MaxMessages == 2
\* number of window clients
MaxClients == 2
\* number of calls of WebInfoService.show
MaxShows == 2
\* number of times the clock of the banner service is advanced
MaxInfoSteps == 5
\* number of listeners that subscribe to the banner service
MaxListeners == 2
\* largest maxRetries of a RevenueCatConfig that is enumerated (it may also
\* be left out, which gives RC_DEFAULT_MAX_RETRIES)
MaxRcRetries == 2
\* CACHE_LIMITS (100, 50 and 30 entries in the program), scaled down: the
\* program uses a limit only in keys.length > maxItems
StaticLimit == 2
DynamicLimit == 1
ImageLimit == 1

(***************************************************************************)
(* Program constants.                                                      *)
(***************************************************************************)
DEFAULT_MAX_RETRIES == 3
RETRY_BASE_DELAY_MS == 1000

\* An optional value: <<>> when the option is not given, <<v>> when it is.
Option(S) == {<<>>} \cup {<<v>> : v \in S}

\* import.meta.env.PROD: a boolean, undefined, or import.meta.env missing
\* altogether (the property access throws).
EnvProdValues == {"true", "false", "undefined", "no-env"}
Protocols == {"https:", "http:"}
Hostnames == {"localhost", "127.0.0.1", "example.com"}

\* ServiceWorker.state values; "none" is a worker not created yet.
WorkerNext(s) ==
  CASE s = "installing" -> {"installed", "redundant"}
    [] s = "installed"  -> {"activating", "redundant"}
    [] s = "activating" -> {"activated", "redundant"}
    [] s = "activated"  -> {"redundant"}
    [] OTHER            -> {}

VARIABLES
  \* ---- environment of the main document
  envPROD,            \* import.meta.env.PROD
  hasServiceWorker,   \* 'serviceWorker' in navigator
  hasWindow,          \* typeof window !== 'undefined'
  protocol,           \* window.location.protocol
  hostname,           \* window.location.hostname
  loadFired,          \* the document's load event has been dispatched
  controller,         \* navigator.serviceWorker.controller is set
  workers,            \* state of each worker announced by updatefound
  \* ---- registerServiceWorker / attemptRegistration
  forceEnable,        \* options.forceEnable, an Option(BOOLEAN)
  maxRetriesOpt,      \* options.maxRetries, an Option(Nat)
  regPc,              \* where the controller is
  attempt,            \* attempt argument of the running attemptRegistration
  log,                \* what the controller did, in program order: the
                      \* states delivered to onStateChange and the calls
                      \* of navigator.serviceWorker.register ("register()")
  loadListeners,      \* number of load listeners installed
  outcomes,           \* how each register call settled: "rej" / "ok"
  timerDelay,         \* delay of the pending retry timer
  timerElapsed,       \* time elapsed since the retry timer was armed
  delays,             \* every delay handed to setTimeout, in order
  waited,             \* time that had elapsed when each retry timer fired
  intervals,          \* number of setInterval timers armed
  updateRequested,    \* registration.update() was called by the interval
  listened,           \* workers carrying the statechange listener
  installedWithController, \* listened workers that reached installed with a controller
  \* ---- unregisterServiceWorker
  unPc,               \* where the unregister call is
  unResult,           \* what its promise settled to
  platformResult,     \* what registration.unregister() settled to
  readyAwaits,        \* times navigator.serviceWorker.ready was awaited
  unregisterCalls,    \* calls of registration.unregister()
  \* ---- the worker: Cache Storage and trimCache
  cacheKeys,          \* per cache name, the request keys in insertion order
                      \* (what cache.keys() returns)
  trim,               \* the running trimCache: its position, arguments and
                      \* keys[0] of the keys it last read
  trimStart,          \* cacheKeys when the running trimCache was called
  trimDeleted,        \* the entries it deleted, in order
  trimInterfered,     \* some other writer touched a cache while it ran
                      \* (trimStart and trimDeleted are then dropped)
  \* --- the worker (sw.js): time and isExpired ---
  now,                \* Date.now()
  clockSteps,         \* number of times the clock was advanced
  exDate,             \* the date header of the response given to isExpired
  exCacheName,        \* the cacheName given to isExpired
  exExpired,          \* what isExpired returned for them at the time now
  \* --- the worker (sw.js): fetch events ---
  cacheResponses,     \* per cache name, the response stored under each key
  handlers,           \* the strategies that are running
  settled,            \* the strategy that ran to its end last
  puts,               \* the cache.put calls that have not taken effect yet
  passed,             \* the last request the listener left to the browser
  sync,               \* the running doBackgroundSync
  serverSendsDate,    \* the server puts a date header on its responses
  rootStored,         \* history: the dynamic cache has at some time held
                      \* an entry for the root document
  \* --- the worker (sw.js): the fetch listener on its own ---
  dispatch,           \* the last fetch event given to the listener and
                      \* the calls of event.respondWith and
                      \* event.waitUntil the listener made for it
  \* --- the worker (sw.js): activate ---
  storage,            \* the names of the caches that exist (caches.keys())
  activate,           \* the running or last activate listener
  \* --- the worker (sw.js): install and message ---
  install,            \* the install event: the worker's position, the
                      \* promise of cache.addAll and the skipWaiting calls
  messages,           \* the data.type of the messages received, in order
  \* --- the worker (sw.js): push ---
  push,               \* the push event given to the listener and what the
                      \* listener did for it
  \* --- the worker (sw.js): notificationclick ---
  click,              \* the notificationclick event given to the listener,
                      \* the window clients, and the calls the listener made
  \* --- the banner service (info.web.ts) ---
  info,               \* the WebInfoService instance, the timers it has
                      \* armed and the clock that drives them
  \* --- the application start (initialize.ts) ---
  app,                \* the running initializeWebApp: its options, its
                      \* position, the calls it made and the running
                      \* initializeRevenueCat
  \* --- the worker (sw.js): trimCache calls of concurrent fetch events ---
  trimRuns            \* the trimCache calls that are running: the
                      \* position, the arguments and keys[0] of each

envVars == <<envPROD, hasServiceWorker, hasWindow, protocol, hostname>>
regVars == <<forceEnable, maxRetriesOpt, regPc, attempt, log, loadListeners,
             outcomes, timerDelay, timerElapsed, delays, waited, intervals>>
swVars  == <<controller, workers, listened, installedWithController>>
unVars  == <<unPc, unResult, platformResult, readyAwaits, unregisterCalls>>
mainVars  == <<envVars, loadFired, regVars, updateRequested, swVars, unVars>>
cacheVars == <<cacheKeys, cacheResponses, trim, trimStart, trimDeleted,
               trimInterfered>>
clockVars == <<now, clockSteps>>
expiryVars == <<exDate, exCacheName, exExpired>>
handlerVars == <<handlers, settled, puts, passed, sync, serverSendsDate,
                 rootStored>>
fetchVars == <<handlerVars, clockVars>>
dispatchVars == <<dispatch>>
activateVars == <<storage, activate>>
installVars == <<install, messages>>
pushVars == <<push>>
clickVars == <<click>>
infoVars == <<info>>
appVars == <<app>>
trimsVars == <<trimRuns>>
eventVars == <<dispatchVars, activateVars, installVars, pushVars, clickVars,
               infoVars, appVars, trimsVars>>
\* the state of the listeners other than the one named
exceptDispatch == <<activateVars, installVars, pushVars, clickVars,
  infoVars, appVars, trimsVars>>
exceptActivate == <<dispatchVars, installVars, pushVars, clickVars,
  infoVars, appVars, trimsVars>>
exceptInstall == <<dispatchVars, activateVars, pushVars, clickVars,
  infoVars, appVars, trimsVars>>
exceptPush == <<dispatchVars, activateVars, installVars, clickVars,
  infoVars, appVars, trimsVars>>
exceptClick == <<dispatchVars, activateVars, installVars, pushVars,
  infoVars, appVars, trimsVars>>
exceptInfo == <<dispatchVars, activateVars, installVars, pushVars, clickVars,
  appVars, trimsVars>>
exceptApp == <<dispatchVars, activateVars, installVars, pushVars, clickVars,
  infoVars, trimsVars>>
exceptTrims == <<dispatchVars, activateVars, installVars, pushVars, clickVars,
  infoVars, appVars>>
restVars == <<expiryVars, eventVars>>
workerVars == <<cacheVars, fetchVars, restVars>>
nonCacheVars == <<mainVars, fetchVars, restVars>>
vars      == <<mainVars, cacheVars, fetchVars, restVars>>

\* ServiceWorkerState
StateNames == {"registering", "registered", "update-available", "error",
               "unsupported", "insecure-context"}
IsStateName(e) == e \in StateNames
\* the states delivered to onStateChange, in order
Emitted == SelectSeq(log, IsStateName)
Count(seq, x) == Cardinality({i \in DOMAIN seq : seq[i] = x})
\* the number of calls of navigator.serviceWorker.register
RegCalls == Count(log, "register()")
\* maxRetries = DEFAULT_MAX_RETRIES in the destructuring of options
MaxRetriesOf(opt) == IF opt = <<>> THEN DEFAULT_MAX_RETRIES ELSE opt[1]
maxRetries == MaxRetriesOf(maxRetriesOpt)

Workers == 1 .. MaxWorkers

RECURSIVE Pow(_, _)
\* Math.pow(base, exp) for a natural exponent
Pow(base, exp) == IF exp = 0 THEN 1 ELSE base * Pow(base, exp - 1)

(***************************************************************************)
(* registerServiceWorker: the guards                                       *)
(***************************************************************************)
\* isProductionEnv(): !!import.meta.env['PROD'], false when the access throws
isProductionEnv(env) == env = "true"

IsEnabledOr(fe, env) == (fe # <<>> /\ fe[1]) \/ isProductionEnv(env)
\* const isEnabled = forceEnable ?? isProductionEnv()
IsEnabled(fe, env) == IF fe # <<>> THEN fe[1] ELSE isProductionEnv(env)

IsInsecureContextNoIp(win, proto, host) ==
  win /\ proto # "https:" /\ host # "localhost"
\* the insecure-context guard
IsInsecureContext(win, proto, host) ==
  win /\ proto # "https:" /\ host # "localhost" /\ host # "127.0.0.1"

GuardTransportFirst(fe, env, sw, win, proto, host) ==
  IF ~IsEnabled(fe, env) THEN "noop"
  ELSE IF IsInsecureContext(win, proto, host) THEN "insecure-context"
  ELSE IF ~sw THEN "unsupported"
  ELSE IF ~win THEN "threw"
  ELSE "listening"
\* The outcome of the guards of registerServiceWorker, in the order the code
\* checks them.  "threw": window is not defined, so window.addEventListener
\* raises a ReferenceError out of the call.
Guard(fe, env, sw, win, proto, host) ==
  IF ~IsEnabled(fe, env) THEN "noop"
  ELSE IF ~sw THEN "unsupported"
  ELSE IF IsInsecureContext(win, proto, host) THEN "insecure-context"
  ELSE IF ~win THEN "threw"
  ELSE "listening"

\* The state a guard outcome delivers to onStateChange (none for the others).
GuardEmits(g) ==
  IF g \in {"unsupported", "insecure-context"} THEN <<g>> ELSE <<>>

\* registerServiceWorker(options)
RegisterServiceWorker(fe, mr) ==
  /\ regPc = "init"
  /\ LET g == Guard(fe, envPROD, hasServiceWorker, hasWindow, protocol, hostname)
     IN /\ regPc' = g
        /\ log' = log \o GuardEmits(g)
        /\ loadListeners' = IF g = "listening" THEN loadListeners + 1
                            ELSE loadListeners
  /\ forceEnable' = fe
  /\ maxRetriesOpt' = mr
  /\ UNCHANGED <<envVars, loadFired, attempt, outcomes, timerDelay,
                 timerElapsed, delays, waited, intervals, updateRequested, swVars,
                 unVars>>
  /\ UNCHANGED workerVars

(***************************************************************************)
(* The load listener and attemptRegistration                               *)
(***************************************************************************)
LoadListenerCallsFirst == <<"register()", "registering">>
\* the load listener: onStateChange('registering'), then
\* attemptRegistration(0, ...), which calls register() and awaits it
LoadListenerDoes == <<"registering", "register()">>

\* The document's load event.  It is dispatched once; a listener installed
\* after it never runs.  The listener emits registering and runs
\* attemptRegistration(0, ...) up to its await of register().
LoadEvent ==
  /\ hasWindow
  /\ ~loadFired
  /\ loadFired' = TRUE
  /\ IF regPc = "listening"
       THEN /\ log' = log \o LoadListenerDoes
            /\ attempt' = 0
            /\ regPc' = "awaiting"
       ELSE UNCHANGED <<log, attempt, regPc>>
  /\ UNCHANGED <<envVars, forceEnable, maxRetriesOpt, loadListeners, outcomes,
                 timerDelay, timerElapsed, delays, waited, intervals,
                 updateRequested, swVars, unVars>>
  /\ UNCHANGED workerVars

IntervalsArmedAlways(outcome) == 1
\* setInterval stands in the try block after the await of register(): it
\* is reached when register() resolved, and the catch block has none
IntervalsArmed(outcome) == IF outcome = "ok" THEN 1 ELSE 0

\* register() resolves: the rest of the try block.
RegisterResolves ==
  /\ regPc = "awaiting"
  /\ outcomes' = Append(outcomes, "ok")
  /\ log' = Append(log, "registered")
  /\ intervals' = intervals + IntervalsArmed("ok")
  /\ regPc' = "registered"
  /\ UNCHANGED <<envVars, loadFired, forceEnable, maxRetriesOpt, attempt,
                 loadListeners, timerDelay, timerElapsed, delays,
                 waited, updateRequested, swVars, unVars>>
  /\ UNCHANGED workerVars

ErrorEmittedOnlyAtEnd(a, n) == IF a < n THEN <<>> ELSE <<"error">>
\* what the catch block delivers for the failed attempt a
ErrorEmitted(a, n) == <<"error">>

RetryAllowedInclusive(a, n) == a <= n
\* if (attempt < maxRetries)
RetryAllowed(a, n) == a < n

RetryDelayLinear(a) == RETRY_BASE_DELAY_MS * (a + 1)
\* const delay = RETRY_BASE_DELAY_MS * Math.pow(2, attempt)
RetryDelay(a) == RETRY_BASE_DELAY_MS * Pow(2, a)

\* register() rejects: the catch block.
RegisterRejects ==
  /\ regPc = "awaiting"
  /\ outcomes' = Append(outcomes, "rej")
  /\ log' = log \o ErrorEmitted(attempt, maxRetries)
  /\ IF RetryAllowed(attempt, maxRetries)
       THEN /\ timerDelay' = RetryDelay(attempt)
            /\ timerElapsed' = 0
            /\ delays' = Append(delays, RetryDelay(attempt))
            /\ regPc' = "timer"
       ELSE /\ regPc' = "gaveup"
            /\ UNCHANGED <<timerDelay, timerElapsed, delays>>
  /\ intervals' = intervals + IntervalsArmed("rej")
  /\ UNCHANGED <<envVars, loadFired, forceEnable, maxRetriesOpt, attempt,
                 loadListeners, waited, updateRequested,
                 swVars, unVars>>
  /\ UNCHANGED workerVars

\* Time passes while a retry timer is pending.
Tick ==
  /\ regPc = "timer"
  /\ timerElapsed < timerDelay
  /\ timerElapsed' = timerElapsed + TickMs
  /\ UNCHANGED <<envVars, loadFired, forceEnable, maxRetriesOpt, regPc, attempt,
                 log, loadListeners, outcomes, timerDelay,
                 delays, waited, intervals, updateRequested, swVars, unVars>>
  /\ UNCHANGED workerVars

\* The retry timer fires, once its delay has elapsed: the setTimeout callback
\* runs attemptRegistration(attempt + 1, ...) up to its await of register().
RetryTimerFires ==
  /\ regPc = "timer"
  /\ timerElapsed >= timerDelay
  /\ waited' = Append(waited, timerElapsed)
  /\ attempt' = attempt + 1
  /\ log' = Append(log, "register()")
  /\ regPc' = "awaiting"
  /\ UNCHANGED <<envVars, loadFired, forceEnable, maxRetriesOpt,
                 loadListeners, outcomes, timerDelay, timerElapsed, delays,
                 intervals, updateRequested, swVars, unVars>>
  /\ UNCHANGED workerVars

\* The 24-hour interval callback: registration.update().
UpdateCheck ==
  /\ intervals > 0
  /\ ~updateRequested
  /\ updateRequested' = TRUE
  /\ UNCHANGED <<envVars, loadFired, regVars, swVars, unVars>>
  /\ UNCHANGED workerVars

(***************************************************************************)
(* updatefound and statechange listeners                                   *)
(***************************************************************************)
ShouldEmitUpdateNoController(state, ctl) == state = "installed"
\* newWorker.state === 'installed' && navigator.serviceWorker.controller
ShouldEmitUpdate(state, ctl) == state = "installed" /\ ctl

\* The platform announces a new worker on the registration.  The listener
\* exists once register() has resolved; it reads registration.installing,
\* which is the new worker or null, and puts a statechange listener on it.
UpdateFound(w, installing) ==
  /\ hasServiceWorker
  /\ RegCalls > 0
  /\ workers[w] = "none"
  /\ \A v \in Workers : v < w => workers[v] # "none"
  /\ workers' = [workers EXCEPT ![w] = IF installing THEN "installing"
                                        ELSE "installed"]
  /\ listened' = IF regPc = "registered" /\ installing
                   THEN listened \cup {w} ELSE listened
  /\ UNCHANGED <<envVars, loadFired, regVars, updateRequested, controller,
                 installedWithController, unVars>>
  /\ UNCHANGED workerVars

\* A worker changes state; its statechange listeners run.
WorkerStateChange(w, s) ==
  /\ s \in WorkerNext(workers[w])
  /\ workers' = [workers EXCEPT ![w] = s]
  /\ IF w \in listened
       THEN /\ log' = IF ShouldEmitUpdate(s, controller)
                        THEN Append(log, "update-available")
                        ELSE log
            /\ installedWithController' =
                 IF s = "installed" /\ controller
                   THEN installedWithController + 1
                   ELSE installedWithController
       ELSE UNCHANGED <<log, installedWithController>>
  /\ UNCHANGED <<envVars, loadFired, forceEnable, maxRetriesOpt, regPc, attempt,
                 loadListeners, outcomes, timerDelay, timerElapsed,
                 delays, waited, intervals, updateRequested, controller, listened,
                 unVars>>
  /\ UNCHANGED workerVars

\* navigator.serviceWorker.controller is set or cleared by the platform.
ControllerChange ==
  /\ hasServiceWorker
  /\ RegCalls > 0
  /\ controller' = ~controller
  /\ UNCHANGED <<envVars, loadFired, regVars, updateRequested, workers, listened,
                 installedWithController, unVars>>
  /\ UNCHANGED workerVars

(***************************************************************************)
(* unregisterServiceWorker                                                 *)
(***************************************************************************)
\* unregisterServiceWorker() up to its first await, or to its return.
UnregisterServiceWorker ==
  /\ unPc = "init"
  /\ IF ~hasServiceWorker
       THEN /\ unResult' = "false"
            /\ unPc' = "done"
            /\ UNCHANGED readyAwaits
       ELSE /\ readyAwaits' = readyAwaits + 1
            /\ unPc' = "awaitReady"
            /\ UNCHANGED unResult
  /\ UNCHANGED <<envVars, loadFired, regVars, updateRequested, swVars,
                 platformResult, unregisterCalls>>
  /\ UNCHANGED workerVars

\* navigator.serviceWorker.ready resolves; registration.unregister() is called.
ReadyResolves ==
  /\ unPc = "awaitReady"
  /\ unregisterCalls' = unregisterCalls + 1
  /\ unPc' = "awaitUnregister"
  /\ UNCHANGED <<envVars, loadFired, regVars, updateRequested, swVars, unResult,
                 platformResult, readyAwaits>>
  /\ UNCHANGED workerVars

UnregisterResultCapability(r) == "true"
\* return registration.unregister(): the async function settles as the
\* platform's promise does
UnregisterResult(r) == r

\* registration.unregister() settles: true, false, or a rejection.
UnregisterSettles(r) ==
  /\ unPc = "awaitUnregister"
  /\ platformResult' = r
  /\ unResult' = UnregisterResult(r)
  /\ unPc' = "done"
  /\ UNCHANGED <<envVars, loadFired, regVars, updateRequested, swVars,
                 readyAwaits, unregisterCalls>>
  /\ UNCHANGED workerVars


(***************************************************************************)
(* The worker: cache names, Cache Storage and trimCache                    *)
(***************************************************************************)
\* largest number of distinct request keys
MaxKeys == 3
\* largest number of entries held by all caches together
MaxEntries == 3
\* largest maxItems argument given to trimCache
MaxItemsBound == 1
\* number of trimCache calls that fetch events have running at a time
MaxTrims == 2

STATIC_CACHE == "sudobility-static-v1"
DYNAMIC_CACHE == "sudobility-dynamic-v1"
IMAGE_CACHE == "sudobility-images-v1"
CacheNames == {STATIC_CACHE, DYNAMIC_CACHE, IMAGE_CACHE}
Keys == 1 .. MaxKeys

Without(seq, k) == SelectSeq(seq, LAMBDA x : x # k)
Range(seq) == {seq[i] : i \in DOMAIN seq}
TotalEntries(ck) ==
  Len(ck[STATIC_CACHE]) + Len(ck[DYNAMIC_CACHE]) + Len(ck[IMAGE_CACHE])

NoKey == "no-key"
TrimIdle == [pc |-> "idle", cacheName |-> STATIC_CACHE, maxItems |-> 0,
             victim |-> NoKey]
NoCaches == [c \in CacheNames |-> <<>>]

\* cache.put(request, response.clone()) of a strategy: the entry stored
\* under the request is replaced, the new one is the most recent.
CachePut(c, k) ==
  /\ TotalEntries([cacheKeys EXCEPT ![c] = Append(Without(@, k), k)])
       <= MaxEntries
  /\ cacheKeys' = [cacheKeys EXCEPT ![c] = Append(Without(@, k), k)]
  /\ IF trim.pc # "idle"
       THEN /\ trimInterfered' = TRUE
            /\ trimStart' = NoCaches
            /\ trimDeleted' = <<>>
       ELSE UNCHANGED <<trimInterfered, trimStart, trimDeleted>>
  /\ UNCHANGED <<trim, cacheResponses>>
  /\ UNCHANGED nonCacheVars

\* trimCache(cacheName, maxItems) is called: await caches.open(cacheName)
TrimCacheCall(c, m) ==
  /\ trim.pc = "idle"
  /\ trim' = [pc |-> "keys", cacheName |-> c, maxItems |-> m, victim |-> NoKey]
  /\ trimStart' = cacheKeys
  /\ trimDeleted' = <<>>
  /\ trimInterfered' = FALSE
  /\ UNCHANGED <<cacheKeys, cacheResponses>>
  /\ UNCHANGED nonCacheVars

\* if (keys.length > maxItems)
TrimNeeded(keys, maxItems) == Len(keys) > maxItems

TrimVictimNewest(keys) == keys[Len(keys)]
\* keys[0]
TrimVictim(keys) == keys[1]

\* const keys = await cache.keys(), the test of its length and, when it
\* is over the limit, the call cache.delete(keys[0])
TrimCacheKeys ==
  /\ trim.pc = "keys"
  /\ LET keys == cacheKeys[trim.cacheName]
     IN trim' = IF TrimNeeded(keys, trim.maxItems)
                  THEN [trim EXCEPT !.pc = "delete", !.victim = TrimVictim(keys)]
                  ELSE [trim EXCEPT !.pc = "done", !.victim = NoKey]
  /\ UNCHANGED <<cacheKeys, cacheResponses, trimStart, trimDeleted,
                  trimInterfered>>
  /\ UNCHANGED nonCacheVars


\* cache.delete(keys[0]) takes effect and resolves;
\* return trimCache(cacheName, maxItems)
TrimCacheDelete ==
  /\ trim.pc = "delete"
  /\ cacheKeys' = [cacheKeys EXCEPT ![trim.cacheName] = Without(@, trim.victim)]
  /\ cacheResponses' = [cacheResponses EXCEPT ![trim.cacheName] =
       [k \in DOMAIN @ \ {trim.victim} |-> @[k]]]
  /\ trimDeleted' = IF trimInterfered THEN <<>>
                    ELSE Append(trimDeleted, trim.victim)
  /\ trim' = [trim EXCEPT !.pc = "keys", !.victim = NoKey]
  /\ UNCHANGED <<trimStart, trimInterfered>>
  /\ UNCHANGED nonCacheVars

\* the promise of trimCache has resolved and is dropped
TrimCacheReturn ==
  /\ trim.pc = "done"
  /\ trim' = TrimIdle
  /\ trimStart' = NoCaches
  /\ trimDeleted' = <<>>
  /\ trimInterfered' = FALSE
  /\ UNCHANGED <<cacheKeys, cacheResponses>>
  /\ UNCHANGED nonCacheVars

(***************************************************************************)
(* The worker: time, CACHE_TTL and isExpired                               *)
(***************************************************************************)
\* A number of milliseconds, as whole seconds and the milliseconds left
\* over (0 .. 999): the program computes with doubles, which are exact far
\* beyond the 30 days of the longest TTL.
Time(s, ms) == [s |-> s, ms |-> ms]
Seconds(s) == Time(s, 0)
TimePlus(a, b) ==
  IF a.ms + b.ms >= 1000 THEN Time(a.s + b.s + 1, a.ms + b.ms - 1000)
  ELSE Time(a.s + b.s, a.ms + b.ms)
\* a - b
TimeMinus(a, b) ==
  IF a.ms >= b.ms THEN Time(a.s - b.s, a.ms - b.ms)
  ELSE Time(a.s - b.s - 1, a.ms - b.ms + 1000)
\* a > b
TimeGreater(a, b) == a.s > b.s \/ (a.s = b.s /\ a.ms > b.ms)

\* CACHE_TTL[cacheName]: <<>> is undefined (no entry for that name)
CACHE_TTL(cacheName) ==
  CASE cacheName = STATIC_CACHE  -> <<Seconds(7 * 24 * 60 * 60)>>
    [] cacheName = DYNAMIC_CACHE -> <<Seconds(24 * 60 * 60)>>
    [] cacheName = IMAGE_CACHE   -> <<Seconds(30 * 24 * 60 * 60)>>
    [] OTHER                     -> <<>>

\* response.headers.get('date'): <<>> when the response has no such header,
\* otherwise the header; an HTTP date names a whole second, and a header
\* that is no date at all is not valid.
DateHeader(s) == <<[valid |-> TRUE, s |-> s]>>
InvalidDate == <<[valid |-> FALSE, s |-> 0]>>
NoDate == <<>>

\* new Date(dateHeader).getTime(): <<>> stands for NaN
GetTime(dateHeader) ==
  IF dateHeader[1].valid THEN <<Seconds(dateHeader[1].s)>> ELSE <<>>

isExpiredInclusive(date, cacheName) ==
  /\ CACHE_TTL(cacheName) # <<>>
  /\ date # NoDate
  /\ GetTime(date) # <<>>
  /\ ~TimeGreater(CACHE_TTL(cacheName)[1], TimeMinus(now, GetTime(date)[1]))

isExpiredWithoutDate(date, cacheName) ==
  /\ CACHE_TTL(cacheName) # <<>>
  /\ \/ date = NoDate
     \/ /\ GetTime(date) # <<>>
        /\ TimeGreater(TimeMinus(now, GetTime(date)[1]), CACHE_TTL(cacheName)[1])

\* isExpired(response, cacheName), of the response's date header; every
\* comparison with NaN is false
isExpired(date, cacheName) ==
  LET maxAge == CACHE_TTL(cacheName)
  IN IF maxAge = <<>> THEN FALSE
     ELSE IF date = NoDate THEN FALSE
     ELSE IF GetTime(date) = <<>> THEN FALSE
     ELSE TimeGreater(TimeMinus(now, GetTime(date)[1]), maxAge[1])

\* the durations by which the clock is advanced
ClockSteps ==
  {Time(0, 1), Seconds(1)} \cup {CACHE_TTL(c)[1] : c \in CacheNames}

\* time passes
ClockAdvance(d) ==
  /\ clockSteps < MaxClockSteps
  /\ now' = TimePlus(now, d)
  /\ clockSteps' = clockSteps + 1
  /\ exExpired' = "none"
  /\ UNCHANGED <<exDate, exCacheName>>
  /\ UNCHANGED <<mainVars, cacheVars, handlerVars, eventVars>>

\* isExpired(response, cacheName) is evaluated
IsExpiredCall ==
  /\ exExpired = "none"
  /\ exExpired' = IF isExpired(exDate, exCacheName) THEN "true" ELSE "false"
  /\ UNCHANGED <<exDate, exCacheName, clockVars>>
  /\ UNCHANGED <<mainVars, cacheVars, handlerVars, eventVars>>

(***************************************************************************)
(* The worker: requests and the routing of the fetch listener              *)
(***************************************************************************)
\* A string is a sequence of pieces, cut wherever a pattern of the listener
\* could begin or end in it ("https:" is <<"http", "s", ":">>), so that the
\* string tests of the code are tests on the pieces.
StartsWith(str, prefix) ==
  Len(str) >= Len(prefix) /\ SubSeq(str, 1, Len(prefix)) = prefix
EndsWith(str, suffix) ==
  Len(str) >= Len(suffix)
    /\ SubSeq(str, Len(str) - Len(suffix) + 1, Len(str)) = suffix
Includes(str, part) ==
  \E i \in 0 .. Len(str) - Len(part) : SubSeq(str, i + 1, i + Len(part)) = part

Https == <<"http", "s", ":">>
ExampleCom == <<"example", ".", "com">>
TextHtml == <<"text", "/", "html">>
RootPath == <<"/">>
\* location.origin of the worker
LocationOrigin == <<Https, ExampleCom>>
\* url.origin
Origin(url) == <<url.protocol, url.hostname>>

\* new URL(request.url): the parts of the URL the listener reads
Url(proto, host, path) ==
  [protocol |-> proto, hostname |-> host, pathname |-> path]
\* a request: its method, its URL and its accept header (<<>> when absent)
Request(method, url, accept) ==
  [method |-> method, url |-> url, accept |-> accept]

ALLOWED_CDN_DOMAINS ==
  {<<"cdn", ".", "jsdelivr", ".", "net">>, <<"unpkg", ".", "com">>}

\* request.headers.get('accept')?.includes('text/html')
AcceptsHtml(request) ==
  request.accept # <<>> /\ Includes(request.accept[1], TextHtml)

IsStaticAssetByExtension(url) ==
  \E ext \in {"js", "css", "woff", "woff2", "ttf", "eot"} :
    EndsWith(url.pathname, <<".", ext>>)
\* url.pathname.match(/\.(js|css|woff2?|ttf|eot)$/)
\*   || url.pathname.startsWith('/assets/')
IsStaticAsset(url) ==
  \/ \E ext \in {"js", "css", "woff", "woff2", "ttf", "eot"} :
       EndsWith(url.pathname, <<".", ext>>)
  \/ StartsWith(url.pathname, <<"/", "assets", "/">>)

\* url.pathname.match(/\.(png|jpg|jpeg|svg|webp|gif|ico)$/)
IsImage(url) ==
  \E ext \in {"png", "jpg", "jpeg", "svg", "webp", "gif", "ico"} :
    EndsWith(url.pathname, <<".", ext>>)

HtmlCacheApart == STATIC_CACHE
\* the cache of the HTML rule: networkFirst(request, DYNAMIC_CACHE)
HtmlCache == DYNAMIC_CACHE

\* what the fetch listener does with a request: the strategy it responds
\* with ("none" when it returns without event.respondWith), the cache the
\* strategy is given and whether trimCache is started on that cache
Handling(strategy, cacheName, trims) ==
  [strategy |-> strategy, cacheName |-> cacheName, trims |-> trims]
PassThrough == Handling("none", STATIC_CACHE, FALSE)

MethodGuardAny(request) == FALSE
\* if (request.method !== 'GET') return;
MethodGuard(request) == request.method # "GET"

\* if (!url.protocol.startsWith('http')) return;
ProtocolGuard(url) == ~StartsWith(url.protocol, <<"http">>)

\* url.hostname.includes('fonts.googleapis.com')
\*   || url.hostname.includes('fonts.gstatic.com')
FontGuard(url) ==
  \/ Includes(url.hostname, <<"fonts", ".", "googleapis", ".", "com">>)
  \/ Includes(url.hostname, <<"fonts", ".", "gstatic", ".", "com">>)

\* url.origin !== location.origin
\*   && !ALLOWED_CDN_DOMAINS.some(domain => url.hostname.includes(domain))
OriginGuard(url) ==
  /\ Origin(url) # LocationOrigin
  /\ ~\E domain \in ALLOWED_CDN_DOMAINS : Includes(url.hostname, domain)

ApiGuardByHost(url) == StartsWith(url.hostname, <<"api", ".">>)
\* url.pathname.startsWith('/api/') || url.hostname.startsWith('api.')
ApiGuard(url) ==
  \/ StartsWith(url.pathname, <<"/", "api", "/">>)
  \/ StartsWith(url.hostname, <<"api", ".">>)

Route(request) ==
  LET url == request.url
  IN IF MethodGuard(request) THEN PassThrough
     ELSE IF ProtocolGuard(url) THEN PassThrough
     ELSE IF FontGuard(url) THEN PassThrough
     ELSE IF OriginGuard(url) THEN PassThrough
     ELSE IF ApiGuard(url) THEN PassThrough
     ELSE IF IsStaticAsset(url)
       THEN Handling("cacheFirst", STATIC_CACHE, FALSE)
     ELSE IF IsImage(url)
       THEN Handling("cacheFirst", IMAGE_CACHE, TRUE)
     ELSE IF StartsWith(url.pathname, <<"/", "locales", "/">>)
       THEN Handling("staleWhileRevalidate", DYNAMIC_CACHE, FALSE)
     ELSE IF \/ AcceptsHtml(request)
             \/ url.pathname = RootPath
             \/ ~Includes(url.pathname, <<".">>)
       THEN Handling("networkFirst", HtmlCache, TRUE)
     ELSE Handling("networkFirst", DYNAMIC_CACHE, FALSE)

(***************************************************************************)
(* The worker: responses, Cache Storage reads and the strategies           *)
(***************************************************************************)
\* a response: response.ok, its body, its date header, and whether its
\* body has been read (a body can be read once)
Response(ok, body, date) ==
  [ok |-> ok, body |-> body, date |-> date, used |-> FALSE]
NoResponse == Response(FALSE, "none", NoDate)
\* the bodies the network serves for a URL, one after the other
Bodies == {"v1", "v2"}

\* cache.match(request) on the named cache: <<>> is undefined
CacheMatch(cacheName, url) ==
  IF url \in DOMAIN cacheResponses[cacheName]
    THEN <<cacheResponses[cacheName][url]>> ELSE <<>>

\* caches.match('/'): the first cache, in the order of creation, that has
\* an entry for the root document of the worker's origin
RootUrl == Url(Https, ExampleCom, RootPath)
CachesMatchRoot ==
  IF CacheMatch(STATIC_CACHE, RootUrl) # <<>> THEN CacheMatch(STATIC_CACHE, RootUrl)
  ELSE IF CacheMatch(DYNAMIC_CACHE, RootUrl) # <<>>
    THEN CacheMatch(DYNAMIC_CACHE, RootUrl)
  ELSE CacheMatch(IMAGE_CACHE, RootUrl)

\* what a strategy has settled with: nothing yet ("pending"), a response
\* (from the network, from its cache, or the root document of
\* caches.match('/')), undefined, or a rejection with the network's error
Result(kind, response, source) ==
  [kind |-> kind, response |-> response, source |-> source]
Pending == Result("pending", NoResponse, "none")
Undefined == Result("undefined", NoResponse, "none")
Rejected == Result("error", NoResponse, "error")
FromNetwork(response) == Result("response", response, "network")
FromCache(response) == Result("response", response, "cache")
\* return caches.match('/')
RootFallback ==
  IF CachesMatchRoot = <<>> THEN Undefined
  ELSE Result("response", CachesMatchRoot[1], "fallback")

\* one dispatched fetch event whose listener called event.respondWith:
\* the position of its strategy, the arguments of the strategy, its local
\* cached, the numbers of its fetch and cache.match calls so far, the
\* response its fetch resolved with, what
\* the promise given to respondWith has settled with and when, and (as
\* history) rootStored at the time of the event
NoRequest == Request("none", RootUrl, <<>>)
HandlerIdle ==
  [pc |-> "idle", request |-> NoRequest, strategy |-> "none",
   cacheName |-> STATIC_CACHE, cached |-> <<>>, fetches |-> 0,
   matches |-> 0, fetched |-> <<>>, result |-> Pending,
   at |-> Seconds(0), rootStored |-> FALSE]
Handlers == 1 .. MaxHandlers
\* a strategy that has run to its end
Settled(H) == [H EXCEPT !.pc = "settled", !.at = now]

\* CACHE_LIMITS[cacheName]
CACHE_LIMITS(cacheName) ==
  CASE cacheName = STATIC_CACHE  -> StaticLimit
    [] cacheName = DYNAMIC_CACHE -> DynamicLimit
    [] cacheName = IMAGE_CACHE   -> ImageLimit

\* the fetch listener, for a request it answers: event.respondWith with
\* the strategy of the route, called up to its first await, and for the
\* image and the HTML route event.waitUntil(trimCache(...)), called up to
\* its first await
FetchEvent(h, request) ==
  LET route == Route(request)
  IN /\ route.strategy # "none"
     /\ handlers[h].pc = "idle"
     /\ \A g \in Handlers : g < h => handlers[g].pc # "idle"
     /\ Cardinality(puts) < MaxPuts
     /\ handlers' = [handlers EXCEPT ![h] =
          [pc |-> IF route.strategy = "networkFirst" THEN "fetch" ELSE "match",
           request |-> request, strategy |-> route.strategy,
           cacheName |-> route.cacheName, cached |-> <<>>, fetches |-> 0,
           matches |-> 0, fetched |-> <<>>, result |-> Pending,
           at |-> Seconds(0), rootStored |-> rootStored]]
     /\ IF route.trims
          THEN /\ trim.pc = "idle"
               /\ trim' = [pc |-> "keys", cacheName |-> route.cacheName,
                           maxItems |-> CACHE_LIMITS(route.cacheName),
                           victim |-> NoKey]
               /\ trimStart' = cacheKeys
               /\ trimDeleted' = <<>>
               /\ trimInterfered' = FALSE
          ELSE UNCHANGED <<trim, trimStart, trimDeleted, trimInterfered>>
     /\ UNCHANGED <<cacheKeys, cacheResponses, puts, passed, sync, settled,
                     serverSendsDate, rootStored>>
     /\ UNCHANGED <<mainVars, clockVars, restVars>>

\* the fetch listener, for a request it leaves to the browser: it returns
\* before event.respondWith
FetchEventPassThrough(request) ==
  /\ Route(request).strategy = "none"
  /\ passed' = <<request>>
  /\ UNCHANGED <<handlers, puts, sync, settled, serverSendsDate,
                 rootStored>>
  /\ UNCHANGED <<mainVars, cacheVars, clockVars, restVars>>

\* the calls of event.respondWith the listener makes for a request, each
\* with the strategy and the cache it is given
RespondWithCalls(request) ==
  LET route == Route(request)
  IN IF route.strategy = "none" THEN <<>>
     ELSE <<[strategy |-> route.strategy, cacheName |-> route.cacheName]>>

\* the calls of event.waitUntil it makes: trimCache with its arguments
WaitUntilCalls(request) ==
  LET route == Route(request)
  IN IF route.trims
       THEN <<[cacheName |-> route.cacheName,
               maxItems |-> CACHE_LIMITS(route.cacheName)]>>
       ELSE <<>>

\* a fetch event given to the listener, before the listener runs
Dispatched(request) ==
  [pc |-> "event", request |-> request, respondWith |-> <<>>,
   waitUntil |-> <<>>]
NoDispatch == [Dispatched(NoRequest) EXCEPT !.pc = "none"]

\* the fetch listener, from its first line to its return, seen by the
\* calls it makes on the event
FetchListener ==
  /\ dispatch.pc = "event"
  /\ dispatch' = [dispatch EXCEPT
                    !.pc = "returned",
                    !.respondWith = RespondWithCalls(dispatch.request),
                    !.waitUntil = WaitUntilCalls(dispatch.request)]
  /\ UNCHANGED <<mainVars, cacheVars, fetchVars, expiryVars, exceptDispatch>>

\* a cache-first that knows no expiry
ServesCachedAlways(cached, cacheName) == cached # <<>>
ServesCachedIfExpired(cached, cacheName) ==
  cached # <<>> /\ isExpired(cached[1].date, cacheName)
\* if (cached && !isExpired(cached, cacheName)) return cached;
ServesCached(cached, cacheName) ==
  cached # <<>> /\ ~isExpired(cached[1].date, cacheName)

\* cacheFirst: const cached = await cache.match(request), and the return
\* of a cached response that has not expired
CacheFirstMatch(h) ==
  LET H == handlers[h]
      cached == CacheMatch(H.cacheName, H.request.url)
  IN /\ H.pc = "match"
     /\ H.strategy = "cacheFirst"
     /\ IF ServesCached(cached, H.cacheName)
          THEN /\ settled' = Settled([H EXCEPT !.cached = cached,
                                               !.matches = H.matches + 1,
                                               !.result = FromCache(cached[1])])
               /\ handlers' = [handlers EXCEPT ![h] = HandlerIdle]
          ELSE /\ handlers' = [handlers EXCEPT ![h] =
                    [H EXCEPT !.pc = "fetch", !.cached = cached,
                              !.matches = H.matches + 1]]
               /\ UNCHANGED settled
     /\ UNCHANGED <<puts, passed, sync, serverSendsDate,
                    rootStored>>
     /\ UNCHANGED <<mainVars, cacheVars, clockVars, restVars>>

\* cache.put(request, response.clone()); return response: what is given
\* to the cache and what is returned
PutWithoutClone(response) ==
  [stored |-> response, returned |-> [response EXCEPT !.used = TRUE]]
PutClone(response) == [stored |-> response, returned |-> response]

\* a strategy that stores whatever the network gives
StoresAny(response) == TRUE

\* if (response.ok)
Stores(response) == response.ok

\* the puts that are under way after a strategy received the response
PutsAfter(H, response) ==
  IF Stores(response)
    THEN puts \cup {[cacheName |-> H.cacheName, url |-> H.request.url,
                     response |-> PutClone(response).stored]}
    ELSE puts

\* the responses fetch(request) may resolve with at the time now: the
\* server's date header names the current second
ServerDate == IF serverSendsDate THEN DateHeader(now.s) ELSE NoDate
NetworkResponses ==
  {Response(TRUE, b, ServerDate) : b \in Bodies}
    \cup {Response(FALSE, "not found", ServerDate)}

\* catch (error): if (cached) return cached; return caches.match('/');
CacheFirstFailure(H) ==
  IF H.cached # <<>> THEN FromCache(H.cached[1]) ELSE RootFallback

\* cacheFirst: fetch(request) resolves with a response
CacheFirstFetched(h, response) ==
  LET H == handlers[h]
  IN /\ H.pc = "fetch"
     /\ H.strategy = "cacheFirst"
     /\ puts' = PutsAfter(H, response)
     /\ settled' = Settled([H EXCEPT !.fetches = H.fetches + 1,
                                !.fetched = <<response>>,
                                !.result = FromNetwork(PutClone(response).returned)])
     /\ handlers' = [handlers EXCEPT ![h] = HandlerIdle]
     /\ UNCHANGED <<passed, sync, serverSendsDate,
                    rootStored>>
     /\ UNCHANGED <<mainVars, cacheVars, clockVars, restVars>>

\* cacheFirst: fetch(request) rejects
CacheFirstFetchFails(h) ==
  LET H == handlers[h]
  IN /\ H.pc = "fetch"
     /\ H.strategy = "cacheFirst"
     /\ settled' = Settled([H EXCEPT !.fetches = H.fetches + 1,
                                !.result = CacheFirstFailure(H)])
     /\ handlers' = [handlers EXCEPT ![h] = HandlerIdle]
     /\ UNCHANGED <<puts, passed, sync, serverSendsDate,
                    rootStored>>
     /\ UNCHANGED <<mainVars, cacheVars, clockVars, restVars>>

\* networkFirst: fetch(request) resolves with a response
NetworkFirstFetched(h, response) ==
  LET H == handlers[h]
  IN /\ H.pc = "fetch"
     /\ H.strategy = "networkFirst"
     /\ puts' = PutsAfter(H, response)
     /\ settled' = Settled([H EXCEPT !.fetches = H.fetches + 1,
                                !.fetched = <<response>>,
                                !.result = FromNetwork(PutClone(response).returned)])
     /\ handlers' = [handlers EXCEPT ![h] = HandlerIdle]
     /\ UNCHANGED <<passed, sync, serverSendsDate,
                    rootStored>>
     /\ UNCHANGED <<mainVars, cacheVars, clockVars, restVars>>

\* networkFirst: fetch(request) rejects
NetworkFirstFetchFails(h) ==
  LET H == handlers[h]
  IN /\ H.pc = "fetch"
     /\ H.strategy = "networkFirst"
     /\ handlers' = [handlers EXCEPT ![h] =
          [H EXCEPT !.pc = "match", !.fetches = H.fetches + 1]]
     /\ UNCHANGED <<puts, passed, sync, settled, serverSendsDate,
                    rootStored>>
     /\ UNCHANGED <<mainVars, cacheVars, clockVars, restVars>>

NetworkFirstFailureAlwaysFallback(H, cached) ==
  IF cached # <<>> THEN FromCache(cached[1]) ELSE RootFallback
\* const cached = await cache.match(request); if (cached) return cached;
\* if (request.headers.get('accept')?.includes('text/html'))
\*   return caches.match('/');
\* throw error;
NetworkFirstFailure(H, cached) ==
  IF cached # <<>> THEN FromCache(cached[1])
  ELSE IF AcceptsHtml(H.request) THEN RootFallback
  ELSE Rejected

\* networkFirst: the catch block
NetworkFirstCatch(h) ==
  LET H == handlers[h]
      cached == CacheMatch(H.cacheName, H.request.url)
  IN /\ H.pc = "match"
     /\ H.strategy = "networkFirst"
     /\ settled' = Settled([H EXCEPT !.cached = cached,
                                !.matches = H.matches + 1,
                                !.result = NetworkFirstFailure(H, cached)])
     /\ handlers' = [handlers EXCEPT ![h] = HandlerIdle]
     /\ UNCHANGED <<puts, passed, sync, serverSendsDate,
                    rootStored>>
     /\ UNCHANGED <<mainVars, cacheVars, clockVars, restVars>>

StaleResultWaits(cached) == Pending
\* return cached || fetchPromise, while fetchPromise is pending
StaleResult(cached) ==
  IF cached # <<>> THEN FromCache(cached[1]) ELSE Pending

\* staleWhileRevalidate: const cached = await cache.match(request), the
\* call of fetch(request) and the return of cached || fetchPromise
StaleMatch(h) ==
  LET H == handlers[h]
      cached == CacheMatch(H.cacheName, H.request.url)
  IN /\ H.pc = "match"
     /\ H.strategy = "staleWhileRevalidate"
     /\ handlers' = [handlers EXCEPT ![h] =
          [H EXCEPT !.pc = "fetch", !.cached = cached,
                    !.matches = H.matches + 1,
                    !.fetches = H.fetches + 1,
                    !.result = StaleResult(cached)]]
     /\ UNCHANGED <<puts, passed, sync, settled, serverSendsDate,
                    rootStored>>
     /\ UNCHANGED <<mainVars, cacheVars, clockVars, restVars>>

\* staleWhileRevalidate: fetchPromise resolves
StaleFetched(h, response) ==
  LET H == handlers[h]
  IN /\ H.pc = "fetch"
     /\ H.strategy = "staleWhileRevalidate"
     /\ puts' = PutsAfter(H, response)
     /\ settled' = Settled([H EXCEPT
                                !.fetched = <<response>>,
                                !.result = IF H.result = Pending
                                             THEN FromNetwork(PutClone(response).returned)
                                             ELSE H.result])
     /\ handlers' = [handlers EXCEPT ![h] = HandlerIdle]
     /\ UNCHANGED <<passed, sync, serverSendsDate,
                    rootStored>>
     /\ UNCHANGED <<mainVars, cacheVars, clockVars, restVars>>

\* staleWhileRevalidate: fetchPromise rejects
StaleFetchFails(h) ==
  LET H == handlers[h]
  IN /\ H.pc = "fetch"
     /\ H.strategy = "staleWhileRevalidate"
     /\ settled' = Settled([H EXCEPT
                                !.result = IF H.result = Pending THEN Rejected
                                           ELSE H.result])
     /\ handlers' = [handlers EXCEPT ![h] = HandlerIdle]
     /\ UNCHANGED <<puts, passed, sync, serverSendsDate,
                    rootStored>>
     /\ UNCHANGED <<mainVars, cacheVars, clockVars, restVars>>

\* a cache.put that no strategy awaits takes effect: the entry of the
\* request is replaced and becomes the most recent one
PutLands(p) ==
  /\ p \in puts
  /\ puts' = puts \ {p}
  /\ cacheKeys' = [cacheKeys EXCEPT ![p.cacheName] = Append(Without(@, p.url), p.url)]
  /\ cacheResponses' = [cacheResponses EXCEPT ![p.cacheName] =
       [k \in DOMAIN @ \cup {p.url} |-> IF k = p.url THEN p.response ELSE @[k]]]
  /\ IF trim.pc # "idle"
       THEN /\ trimInterfered' = TRUE
            /\ trimStart' = NoCaches
            /\ trimDeleted' = <<>>
       ELSE UNCHANGED <<trimInterfered, trimStart, trimDeleted>>
  /\ rootStored' = (rootStored \/ (p.cacheName = DYNAMIC_CACHE /\ p.url = RootUrl))
  /\ UNCHANGED <<trim, handlers, passed, sync, settled, serverSendsDate>>
  /\ UNCHANGED <<mainVars, clockVars, restVars>>

(***************************************************************************)
(* The worker: activate                                                    *)
(***************************************************************************)
\* Cache names other than the three current ones, and the pieces every
\* name is made of, cut where a prefix of the listener could end.
OldStaticCache == "sudobility-static-v0"
Web3mailCache == "web3mail-cache"
ShapeshyftCache == "shapeshyft-v2"
WorkboxCache == "workbox-precache"
MyStaticCache == "my-sudobility-static-v1"
StorageNames ==
  CacheNames \cup {OldStaticCache, Web3mailCache, ShapeshyftCache,
                   WorkboxCache, MyStaticCache}
NameParts(name) ==
  CASE name = STATIC_CACHE    -> <<"sudobility-", "static-v1">>
    [] name = DYNAMIC_CACHE   -> <<"sudobility-", "dynamic-v1">>
    [] name = IMAGE_CACHE     -> <<"sudobility-", "images-v1">>
    [] name = OldStaticCache  -> <<"sudobility-", "static-v0">>
    [] name = Web3mailCache   -> <<"web3mail-", "cache">>
    [] name = ShapeshyftCache -> <<"shapeshyft-", "v2">>
    [] name = WorkboxCache    -> <<"workbox-precache">>
    [] name = MyStaticCache   -> <<"my-", "sudobility-", "static-v1">>

CURRENT_CACHES == {STATIC_CACHE, DYNAMIC_CACHE, IMAGE_CACHE}
LEGACY_PREFIXES == {"web3mail-", "shapeshyft-"}

NameIncludes(name, prefix) == Includes(NameParts(name), <<prefix>>)
\* name.startsWith(prefix)
NameStartsWith(name, prefix) == StartsWith(NameParts(name), <<prefix>>)

ActivateFilterFamily(name) == NameStartsWith(name, "sudobility-")
\* the filter of the activate listener
ActivateFilter(name) ==
  IF NameStartsWith(name, "sudobility-") /\ name \notin CURRENT_CACHES
    THEN TRUE
    ELSE \E prefix \in LEGACY_PREFIXES : NameStartsWith(name, prefix)

\* run counts the activations; names is what caches.keys() resolved with,
\* pending the caches.delete calls that have not resolved, deleted the
\* names whose cache was deleted, earlier the names deleted by earlier
\* activations, entries the content of the current caches when the
\* listener was called
ActivateIdle ==
  [pc |-> "idle", run |-> 0, names |-> {}, pending |-> {}, deleted |-> {},
   earlier |-> {}, claimed |-> FALSE, entries |-> <<>>]

\* the activate listener up to Promise.all: caches.keys() resolves, the
\* names are filtered and caches.delete is called for each of them
ActivateEvent ==
  /\ activate.pc \in {"idle", "claimed"}
  /\ activate.run < MaxActivations
  /\ activate' = [pc |-> "deleting", run |-> activate.run + 1,
                  names |-> storage,
                  pending |-> {name \in storage : ActivateFilter(name)},
                  deleted |-> {},
                  earlier |-> activate.earlier \cup activate.deleted,
                  claimed |-> FALSE,
                  entries |-> <<cacheKeys, cacheResponses>>]
  /\ UNCHANGED storage
  /\ UNCHANGED <<mainVars, cacheVars, fetchVars, expiryVars, exceptActivate>>

\* caches.delete(name) takes effect and resolves
ActivateDeleted(name) ==
  /\ activate.pc = "deleting"
  /\ name \in activate.pending
  /\ storage' = storage \ {name}
  /\ activate' = [activate EXCEPT !.pending = @ \ {name},
                                  !.deleted = @ \cup {name}]
  /\ IF name \in CacheNames
       THEN /\ cacheKeys' = [cacheKeys EXCEPT ![name] = <<>>]
            /\ cacheResponses' = [cacheResponses EXCEPT ![name] = <<>>]
       ELSE UNCHANGED <<cacheKeys, cacheResponses>>
  /\ UNCHANGED <<trim, trimStart, trimDeleted, trimInterfered>>
  /\ UNCHANGED <<mainVars, fetchVars, expiryVars, exceptActivate>>

\* .then(() => self.clients.claim()), once Promise.all has resolved
ActivateClaim ==
  /\ activate.pc = "deleting"
  /\ activate.pending = {}
  /\ activate' = [activate EXCEPT !.pc = "claimed", !.claimed = TRUE]
  /\ UNCHANGED storage
  /\ UNCHANGED <<mainVars, cacheVars, fetchVars, expiryVars, exceptActivate>>

(***************************************************************************)
(* The worker: install and message                                         *)
(***************************************************************************)
\* Files to precache on install, resolved against the worker's origin
PRECACHE_URLS ==
  <<RootUrl, Url(Https, ExampleCom, <<"/", "manifest", ".", "json">>)>>

\* pc is where the worker is ("installing" while the install event is
\* held open), addAll the promise of cache.addAll, skipWaiting the
\* listeners that called self.skipWaiting(), entries the content of the
\* caches when the listener was called
InstallIdle ==
  [pc |-> "idle", addAll |-> "none", skipWaiting |-> <<>>, entries |-> <<>>]

InstallWaitsForNothing(addAll) == "fulfilled"
\* the promise given to event.waitUntil: the one of
\* caches.open(STATIC_CACHE).then(cache => cache.addAll(PRECACHE_URLS))
InstallWaitUntil(addAll) == addAll

\* the install listener: event.waitUntil(...) with caches.open called,
\* then self.skipWaiting()
InstallEvent ==
  /\ install.pc = "idle"
  /\ install' = [pc |-> "installing", addAll |-> "pending",
                 skipWaiting |-> Append(install.skipWaiting, "install"),
                 entries |-> <<cacheKeys, cacheResponses>>]
  /\ storage' = storage \cup {STATIC_CACHE}
  /\ UNCHANGED <<messages, activate, dispatchVars, pushVars, clickVars,
                 infoVars, appVars, trimsVars>>
  /\ UNCHANGED <<mainVars, cacheVars, fetchVars, expiryVars>>

\* cache.addAll(PRECACHE_URLS) resolves: every URL was fetched with an ok
\* response, and the responses are stored in the order of the list
InstallAddAllResolves(bodies) ==
  /\ install.addAll = "pending"
  /\ install' = [install EXCEPT !.addAll = "fulfilled"]
  /\ cacheKeys' = [cacheKeys EXCEPT ![STATIC_CACHE] =
       SelectSeq(@, LAMBDA k : k \notin Range(PRECACHE_URLS)) \o PRECACHE_URLS]
  /\ cacheResponses' = [cacheResponses EXCEPT ![STATIC_CACHE] =
       [k \in DOMAIN @ \cup Range(PRECACHE_URLS) |->
          IF \E i \in DOMAIN PRECACHE_URLS : PRECACHE_URLS[i] = k
            THEN Response(TRUE,
                          bodies[CHOOSE i \in DOMAIN PRECACHE_URLS :
                                   PRECACHE_URLS[i] = k],
                          ServerDate)
            ELSE @[k]]]
  /\ UNCHANGED <<trim, trimStart, trimDeleted, trimInterfered>>
  /\ UNCHANGED <<messages, exceptInstall>>
  /\ UNCHANGED <<mainVars, fetchVars, expiryVars>>

\* cache.addAll rejects: a fetch failed or a response was not ok; nothing
\* is stored
InstallAddAllRejects ==
  /\ install.addAll = "pending"
  /\ install' = [install EXCEPT !.addAll = "rejected"]
  /\ UNCHANGED <<messages, exceptInstall>>
  /\ UNCHANGED <<mainVars, cacheVars, fetchVars, expiryVars>>

\* the promise given to event.waitUntil has settled: the install event
\* ends, and the worker is installed or, after a rejection, discarded
InstallSettles ==
  /\ install.pc = "installing"
  /\ InstallWaitUntil(install.addAll) \in {"fulfilled", "rejected"}
  /\ install' = [install EXCEPT !.pc =
       IF InstallWaitUntil(install.addAll) = "fulfilled"
         THEN "installed" ELSE "redundant"]
  /\ UNCHANGED <<messages, exceptInstall>>
  /\ UNCHANGED <<mainVars, cacheVars, fetchVars, expiryVars>>

\* the message listener: self.skipWaiting() for data.type SKIP_WAITING
MessageEvent(type) ==
  /\ Len(messages) < MaxMessages
  /\ messages' = Append(messages, type)
  /\ install' = IF type = "SKIP_WAITING"
                  THEN [install EXCEPT !.skipWaiting = Append(@, "message")]
                  ELSE install
  /\ UNCHANGED exceptInstall
  /\ UNCHANGED <<mainVars, cacheVars, fetchVars, expiryVars>>

(***************************************************************************)
(* The worker: push                                                        *)
(***************************************************************************)
\* JSON values: null, a number, a string, an array, and objects given by
\* their members (a function from member names to values)
JsonNull == [type |-> "null", members |-> <<>>]
JsonNumber == [type |-> "number", members |-> <<>>]
JsonString == [type |-> "string", members |-> <<>>]
JsonArray == [type |-> "array", members |-> <<>>]
JsonObject(members) == [type |-> "object", members |-> members]

\* event.data: "none" when the push has no payload, else the text of the
\* payload, which is well-formed JSON for a value or is not
NoPayload == [kind |-> "none", wellFormed |-> FALSE, value |-> JsonNull]
Malformed == [kind |-> "text", wellFormed |-> FALSE, value |-> JsonNull]
PayloadOf(value) == [kind |-> "text", wellFormed |-> TRUE, value |-> value]

\* event.data.json(): <<value>>, or <<>> when it throws a SyntaxError
DataJsonOf(payload) == IF payload.wellFormed THEN <<payload.value>> ELSE <<>>

\* const { title, body, icon, badge, data } = data: the value of a member,
\* "undefined" when the value has no such member; destructuring null
\* throws a TypeError
CanDestructure(value) == value.type # "null"
Member(value, name) ==
  IF value.type = "object" /\ name \in DOMAIN value.members
    THEN value.members[name] ELSE "undefined"

OrDefaultWhenUndefined(x, default) == IF x = "undefined" THEN default ELSE x
\* x || default
OrDefault(x, default) == IF x \in {"undefined", ""} THEN default ELSE x

\* the notification of self.registration.showNotification(...)
NotificationFor(value) ==
  [title |-> OrDefault(Member(value, "title"), "Notification"),
   body |-> Member(value, "body"),
   icon |-> OrDefault(Member(value, "icon"), "/favicon-192.png"),
   badge |-> OrDefault(Member(value, "badge"), "/favicon-96.png"),
   data |-> Member(value, "data"),
   requireInteraction |-> TRUE,
   actions |-> <<"open", "dismiss">>]

\* a push event given to the listener, before the listener runs; shown
\* are the showNotification calls, threw says an exception left the
\* listener, logged that console.error was called
Pushed(payload) ==
  [pc |-> "event", payload |-> payload, shown |-> <<>>, threw |-> FALSE,
   logged |-> FALSE]
NoPush == [Pushed(NoPayload) EXCEPT !.pc = "none"]

\* the try block of the listener: the notifications it shows and the
\* exception it ends with ("none" when it runs to its end)
PushTry(payload) ==
  IF DataJsonOf(payload) = <<>>
    THEN [shown |-> <<>>, exception |-> "SyntaxError"]
  ELSE IF ~CanDestructure(DataJsonOf(payload)[1])
    THEN [shown |-> <<>>, exception |-> "TypeError"]
  ELSE [shown |-> <<NotificationFor(DataJsonOf(payload)[1])>>,
        exception |-> "none"]

\* catch (error) { console.error(...) }: the exceptions it absorbs
PushCatch(exception) == exception # "none"

\* the push listener, from its first line to its return
PushListener ==
  /\ push.pc = "event"
  /\ push' =
       IF push.payload.kind = "none"
         THEN [push EXCEPT !.pc = "returned"]
         ELSE LET try == PushTry(push.payload)
              IN [push EXCEPT
                    !.pc = "returned",
                    !.shown = try.shown,
                    !.logged = PushCatch(try.exception),
                    !.threw = try.exception # "none" /\ ~PushCatch(try.exception)]
  /\ UNCHANGED exceptPush
  /\ UNCHANGED <<mainVars, cacheVars, fetchVars, expiryVars>>

(***************************************************************************)
(* The worker: notificationclick                                           *)
(***************************************************************************)
\* event.notification.data: undefined, or an object whose url member is
\* "undefined" or a string
NoData == [defined |-> FALSE, url |-> "undefined"]
DataWith(url) == [defined |-> TRUE, url |-> url]

\* const urlToOpen = event.notification.data?.url || '/'
TargetUrl(data) ==
  IF ~data.defined THEN "/"
  ELSE IF data.url \in {"undefined", ""} THEN "/"
  ELSE data.url

\* a call of the listener: event.notification.close(), client.focus() on
\* the client of that index, or self.clients.openWindow(url)
Call(name, client, url) == [call |-> name, client |-> client, url |-> url]

ClickDismissedNever(action) == FALSE
\* if (event.action === 'dismiss') return;
ClickDismissed(action) == action = "dismiss"

\* a notificationclick event given to the listener, before the listener
\* runs: the action chosen, the data of the notification, the url of each
\* window client in the order of clients.matchAll, whether
\* self.clients.openWindow exists; calls are the calls the listener made
Clicked(action, data, clients, hasOpenWindow) ==
  [pc |-> "event", action |-> action, data |-> data, clients |-> clients,
   hasOpenWindow |-> hasOpenWindow, calls |-> <<>>]
NoClick == [Clicked("", NoData, <<>>, TRUE) EXCEPT !.pc = "none"]

\* the notificationclick listener up to its return: close, the test of
\* the action, and event.waitUntil(self.clients.matchAll(...))
ClickListener ==
  /\ click.pc = "event"
  /\ click' = [click EXCEPT
       !.pc = IF ClickDismissed(click.action) THEN "returned" ELSE "matchAll",
       !.calls = <<Call("close", 0, "")>>]
  /\ UNCHANGED exceptClick
  /\ UNCHANGED <<mainVars, cacheVars, fetchVars, expiryVars>>

\* the then of matchAll: the first client whose url is urlToOpen is
\* focused; without one, a window is opened when openWindow exists
ClickMatched ==
  /\ click.pc = "matchAll"
  /\ LET urlToOpen == TargetUrl(click.data)
         matching == {i \in DOMAIN click.clients : click.clients[i] = urlToOpen}
     IN click' = [click EXCEPT
          !.pc = "returned",
          !.calls =
            IF matching # {}
              THEN Append(@, Call("focus",
                                  CHOOSE i \in matching :
                                    \A j \in matching : i <= j, ""))
            ELSE IF click.hasOpenWindow
              THEN Append(@, Call("openWindow", 0, urlToOpen))
            ELSE @]
  /\ UNCHANGED exceptClick
  /\ UNCHANGED <<mainVars, cacheVars, fetchVars, expiryVars>>

(***************************************************************************)
(* The worker: background sync                                             *)
(***************************************************************************)
\* requests is what is left of the for loop; tag is the tag of the last
\* sync event, kept the requests of the loop whose fetch was rejected
SyncIdle ==
  [pc |-> "idle", requests |-> <<>>, tag |-> "none", kept |-> <<>>]

SyncTagAny(tag) == TRUE
\* if (event.tag === 'background-sync')
SyncTag(tag) == tag = "background-sync"

\* the sync listener: for the tag 'background-sync', doBackgroundSync up
\* to const requests = await cache.keys() of the dynamic cache; for
\* another tag, nothing
SyncEvent(tag) ==
  /\ sync.pc = "idle"
  /\ sync' = IF SyncTag(tag)
               THEN [pc |-> "loop", requests |-> cacheKeys[DYNAMIC_CACHE],
                     tag |-> tag, kept |-> <<>>]
               ELSE [SyncIdle EXCEPT !.tag = tag]
  /\ UNCHANGED <<handlers, puts, passed, settled, serverSendsDate,
                 rootStored>>
  /\ UNCHANGED <<mainVars, cacheVars, clockVars, restVars>>

\* doBackgroundSync: await fetch(request) resolves, with any response, and
\* await cache.delete(request) takes effect
SyncFetched ==
  /\ sync.pc = "loop"
  /\ sync.requests # <<>>
  /\ LET url == Head(sync.requests)
     IN /\ cacheKeys' = [cacheKeys EXCEPT ![DYNAMIC_CACHE] = Without(@, url)]
        /\ cacheResponses' = [cacheResponses EXCEPT ![DYNAMIC_CACHE] =
             [k \in DOMAIN @ \ {url} |-> @[k]]]
  /\ sync' = [sync EXCEPT !.requests = Tail(@)]
  /\ IF trim.pc # "idle"
       THEN /\ trimInterfered' = TRUE
            /\ trimStart' = NoCaches
            /\ trimDeleted' = <<>>
       ELSE UNCHANGED <<trimInterfered, trimStart, trimDeleted>>
  /\ UNCHANGED <<trim, handlers, puts, passed, settled, serverSendsDate,
                 rootStored>>
  /\ UNCHANGED <<mainVars, clockVars, restVars>>

\* doBackgroundSync: await fetch(request) rejects; the catch block is empty
SyncFetchFails ==
  /\ sync.pc = "loop"
  /\ sync.requests # <<>>
  /\ sync' = [sync EXCEPT !.requests = Tail(@),
                          !.kept = Append(@, Head(sync.requests))]
  /\ UNCHANGED <<handlers, puts, passed, settled, serverSendsDate,
                 rootStored>>
  /\ UNCHANGED <<mainVars, cacheVars, clockVars, restVars>>

\* doBackgroundSync returns after the last request
SyncReturn ==
  /\ sync.pc = "loop"
  /\ sync.requests = <<>>
  /\ sync' = SyncIdle
  /\ UNCHANGED <<handlers, puts, passed, settled, serverSendsDate,
                 rootStored>>
  /\ UNCHANGED <<mainVars, cacheVars, clockVars, restVars>>

(***************************************************************************)
(* The worker: the trimCache calls of fetch events that overlap            *)
(***************************************************************************)
\* the caches the fetch listener trims: the image and the HTML route
TrimmedCaches == {IMAGE_CACHE, DYNAMIC_CACHE}
TrimIds == 1 .. MaxTrims
TrimsIdle == [i \in TrimIds |-> TrimIdle]

\* event.waitUntil(trimCache(cacheName, CACHE_LIMITS[cacheName])) of a
\* fetch event: await caches.open(cacheName)
TrimRunCall(i, c) ==
  /\ trimRuns[i].pc = "idle"
  /\ trimRuns' = [trimRuns EXCEPT ![i] =
       [pc |-> "keys", cacheName |-> c, maxItems |-> CACHE_LIMITS(c),
        victim |-> NoKey]]
  /\ UNCHANGED cacheVars
  /\ UNCHANGED exceptTrims
  /\ UNCHANGED <<mainVars, fetchVars, expiryVars>>

\* const keys = await cache.keys(), the test of its length and, when it
\* is over the limit, the call cache.delete(keys[0])
TrimRunKeys(i) ==
  /\ trimRuns[i].pc = "keys"
  /\ LET keys == cacheKeys[trimRuns[i].cacheName]
     IN trimRuns' = [trimRuns EXCEPT ![i] =
          IF TrimNeeded(keys, @.maxItems)
            THEN [@ EXCEPT !.pc = "delete", !.victim = TrimVictim(keys)]
            ELSE [@ EXCEPT !.pc = "done", !.victim = NoKey]]
  /\ UNCHANGED cacheVars
  /\ UNCHANGED exceptTrims
  /\ UNCHANGED <<mainVars, fetchVars, expiryVars>>

\* cache.delete(keys[0]) takes effect and resolves;
\* return trimCache(cacheName, maxItems)
TrimRunDelete(i) ==
  /\ trimRuns[i].pc = "delete"
  /\ cacheKeys' = [cacheKeys EXCEPT ![trimRuns[i].cacheName] =
                     Without(@, trimRuns[i].victim)]
  /\ cacheResponses' = [cacheResponses EXCEPT ![trimRuns[i].cacheName] =
       [k \in DOMAIN @ \ {trimRuns[i].victim} |-> @[k]]]
  /\ trimRuns' = [trimRuns EXCEPT ![i] = [@ EXCEPT !.pc = "keys", !.victim = NoKey]]
  /\ UNCHANGED <<trim, trimStart, trimDeleted, trimInterfered>>
  /\ UNCHANGED exceptTrims
  /\ UNCHANGED <<mainVars, fetchVars, expiryVars>>

\* the promise of trimCache has resolved
TrimRunReturn(i) ==
  /\ trimRuns[i].pc = "done"
  /\ trimRuns' = [trimRuns EXCEPT ![i] = TrimIdle]
  /\ UNCHANGED cacheVars
  /\ UNCHANGED exceptTrims
  /\ UNCHANGED <<mainVars, fetchVars, expiryVars>>

(***************************************************************************)
(* The banner service (info.web.ts): WebInfoService                        *)
(***************************************************************************)
InfoTypes == {"info", "success"}
Titles == {"First", "Second"}
Texts == {"Message"}
Listeners == 1 .. MaxListeners

\* interval?: Optional<number>, left out or given in ms
Omitted == [defined |-> FALSE, ms |-> 0]
Ms(n) == [defined |-> TRUE, ms |-> n]
Intervals == {Omitted, Ms(0), Ms(TickMs), Ms(3 * TickMs)}

\* the state of a new instance; the duration field is absent
InitialBannerState ==
  [isVisible |-> FALSE, title |-> "", description |-> "",
   variant |-> "info", duration |-> Omitted]

\* dismissTimeoutId is null
NoTimer == 0

NotHidden == [by |-> "none", of |-> 0, at |-> 0]

\* A new WebInfoService.  timers are the setTimeout tasks that are pending,
\* each with the time it is due; time is the clock that drives them.
\* History: shows counts the calls of show, banner is the show the state
\* stems from, shownAt its time, hidden what hid the banner last, returned
\* the listeners that hold an unsubscribe function, op the last operation
\* (with the listener it was given), calls the listener calls it made.
InfoIdle ==
  [state |-> InitialBannerState, listeners |-> <<>>,
   dismissTimeoutId |-> NoTimer, timers |-> {}, nextId |-> 1,
   time |-> 0, steps |-> 0, shows |-> 0, banner |-> 0, shownAt |-> 0,
   hidden |-> NotHidden, returned |-> {}, op |-> "none", listener |-> 0,
   calls |-> <<>>]

\* a service that never clears its timer
ClearDismissTimeoutNever(i) == i

\* clearDismissTimeout()
ClearDismissTimeout(i) ==
  IF i.dismissTimeoutId # NoTimer
  THEN [i EXCEPT !.timers = {t \in @ : t.id # i.dismissTimeoutId},
                 !.dismissTimeoutId = NoTimer]
  ELSE i

\* a service that notifies only the listener that was added first
NotifyFirstListener(listeners, state) ==
  [k \in 1 .. (IF listeners = <<>> THEN 0 ELSE 1) |->
     [listener |-> listeners[k], state |-> state]]

\* notifyListeners(): the listeners are called in the order they were added
NotifyListeners(listeners, state) ==
  [k \in 1 .. Len(listeners) |-> [listener |-> listeners[k], state |-> state]]

\* setState(newState)
SetState(i, newState) ==
  [i EXCEPT !.state = newState,
            !.calls = NotifyListeners(i.listeners, newState)]

\* dismiss()
Dismiss(i) ==
  SetState(ClearDismissTimeout(i), [i.state EXCEPT !.isVisible = FALSE])

DEFAULT_DISMISS_AFTER == 5000

\* interval ?? 5000
DismissAfter(interval) ==
  IF interval.defined THEN interval.ms ELSE DEFAULT_DISMISS_AFTER

\* setTimeout(() => this.dismiss(), dismissAfter) called by show number n
SetTimeout(i, dismissAfter, n) ==
  [i EXCEPT !.dismissTimeoutId = i.nextId,
            !.timers = @ \cup {[id |-> i.nextId, due |-> i.time + dismissAfter,
                                of |-> n]},
            !.nextId = @ + 1]

\* show(title, text, type, interval)
InfoShow(title, text, type, interval) ==
  /\ info.shows < MaxShows
  /\ LET cleared == ClearDismissTimeout(info)
         newState == [isVisible |-> TRUE, title |-> title,
                      description |-> text, variant |-> type,
                      duration |-> interval]
         set == SetState(cleared, newState)
         dismissAfter == DismissAfter(interval)
         armed == IF dismissAfter > 0
                  THEN SetTimeout(set, dismissAfter, info.shows + 1)
                  ELSE set
     IN info' = [armed EXCEPT !.shows = @ + 1, !.banner = info.shows + 1,
                              !.shownAt = info.time, !.hidden = NotHidden,
                              !.op = "show", !.listener = 0]
  /\ UNCHANGED exceptInfo
  /\ UNCHANGED <<mainVars, cacheVars, fetchVars, expiryVars>>

\* dismiss() called by the application
InfoDismiss ==
  /\ info' = [Dismiss(info) EXCEPT
                !.hidden = [by |-> "dismiss", of |-> info.banner,
                            at |-> info.time],
                !.op = "dismiss", !.listener = 0]
  /\ UNCHANGED exceptInfo
  /\ UNCHANGED <<mainVars, cacheVars, fetchVars, expiryVars>>

\* a pending timer is due: its callback runs dismiss()
InfoTimerFires ==
  /\ \E t \in info.timers :
       /\ t.due <= info.time
       /\ info' = [Dismiss([info EXCEPT !.timers = @ \ {t}]) EXCEPT
                     !.hidden = [by |-> "timer", of |-> t.of,
                                 at |-> info.time],
                     !.op = "timer", !.listener = 0]
  /\ UNCHANGED exceptInfo
  /\ UNCHANGED <<mainVars, cacheVars, fetchVars, expiryVars>>

Min(S) == CHOOSE x \in S : \A y \in S : x <= y

\* time passes, up to the time the next timer is due
InfoAdvance ==
  /\ info.steps < MaxInfoSteps
  /\ \A t \in info.timers : t.due > info.time
  /\ info' = [info EXCEPT
                !.time = Min({info.time + TickMs}
                             \cup {t.due : t \in info.timers}),
                !.steps = @ + 1]
  /\ UNCHANGED exceptInfo
  /\ UNCHANGED <<mainVars, cacheVars, fetchVars, expiryVars>>

\* subscribe(listener): a Set keeps one entry per listener
InfoSubscribe(listener) ==
  /\ info' = [info EXCEPT
                !.listeners = IF \E k \in 1 .. Len(@) : @[k] = listener
                              THEN @ ELSE Append(@, listener),
                !.calls = <<[listener |-> listener, state |-> info.state]>>,
                !.returned = @ \cup {listener},
                !.op = "subscribe", !.listener = listener]
  /\ UNCHANGED exceptInfo
  /\ UNCHANGED <<mainVars, cacheVars, fetchVars, expiryVars>>

\* the function subscribe returned is called: listeners.delete(listener)
InfoUnsubscribe(listener) ==
  /\ listener \in info.returned
  /\ info' = [info EXCEPT
                !.listeners = SelectSeq(@, LAMBDA l : l # listener),
                !.calls = <<>>,
                !.op = "unsubscribe", !.listener = listener]
  /\ UNCHANGED exceptInfo
  /\ UNCHANGED <<mainVars, cacheVars, fetchVars, expiryVars>>

(***************************************************************************)
(* The application start (initialize.ts): initializeWebApp                 *)
(***************************************************************************)
RC_DEFAULT_MAX_RETRIES == 2
RC_RETRY_BASE_DELAY_MS == 1000

\* WebAppInitOptions and RevenueCatConfig, as far as the control flow reads
\* them.  revenueCat: "absent" without a revenueCatConfig, "lazy" with
\* lazy: true, "eager" otherwise.  registerServiceWorker: true, false, a
\* function, or left out.
WebAppInitOptions(revenueCat, retries, onError, initializeI18n, registerServiceWorker, initWebVitals) ==
  [revenueCat |-> revenueCat, maxRetries |-> retries, onError |-> onError,
   initializeI18n |-> initializeI18n,
   registerServiceWorker |-> registerServiceWorker,
   initWebVitals |-> initWebVitals]

NoOptions == WebAppInitOptions("absent", <<>>, FALSE, FALSE, "undefined", FALSE)

\* initializeRevenueCat has not been called.  attempt is the loop variable,
\* outcomes how each attempt ended, delays every delay handed to
\* setTimeout, waited the time that had passed when each timer fired,
\* onError the number of calls of config.onError.
RcIdle ==
  [pc |-> "none", attempt |-> 0, outcomes |-> <<>>, delays |-> <<>>,
   elapsed |-> 0, waited |-> <<>>, onError |-> 0]

\* initializeWebApp has not been called.  calls are the calls it made, in
\* order; result is what its promise settled to.
AppIdle ==
  [pc |-> "idle", options |-> NoOptions, calls |-> <<>>,
   result |-> "pending", rc |-> RcIdle]

\* lines 126-141: the five core services
CoreCalls ==
  <<"initializeStorageService", "initializeFirebaseService",
    "initializeFirebaseAnalytics", "initializeNetworkService",
    "initializeInfoService">>

\* config.maxRetries ?? RC_DEFAULT_MAX_RETRIES
RcMaxRetries(options) ==
  IF options.maxRetries = <<>> THEN RC_DEFAULT_MAX_RETRIES
  ELSE options.maxRetries[1]

\* an application that takes every truthy option for true
ServiceWorkerSharedTruthy(option) == option \in {"true", "function"}

\* registerServiceWorker === true
ServiceWorkerShared(option) == option = "true"

\* lines 167-171: web vitals, and the return of the analytics service
AfterServiceWorker(a) ==
  [a EXCEPT !.calls = IF a.options.initWebVitals
                      THEN Append(@, "initWebVitals") ELSE @,
            !.pc = "returned",
            !.result = "analytics"]

\* lines 154-166: i18n, then the service worker: the shared registration
\* is imported first, a function is called at once
AfterRevenueCat(a) ==
  LET withI18n == [a EXCEPT !.calls = IF a.options.initializeI18n
                                      THEN Append(@, "initializeI18n")
                                      ELSE @]
  IN IF ServiceWorkerShared(a.options.registerServiceWorker)
     THEN [withI18n EXCEPT !.pc = "swImport"]
     ELSE IF a.options.registerServiceWorker = "function"
     THEN AfterServiceWorker(
            [withI18n EXCEPT !.calls = Append(@, "registerServiceWorker")])
     ELSE AfterServiceWorker(withI18n)

\* initializeRevenueCat(config) up to its first await: with a maxRetries
\* below 0 the loop is not entered
RevenueCatCalled(a) ==
  [a EXCEPT !.calls = Append(@, "initializeRevenueCat"),
            !.rc = [RcIdle EXCEPT
                      !.pc = IF 0 <= RcMaxRetries(a.options)
                             THEN "import" ELSE "returned"]]

\* initializeWebApp(options) up to its first await
InitializeWebApp ==
  /\ app.pc = "idle"
  /\ LET core == [app EXCEPT !.calls = @ \o CoreCalls]
     IN app' = CASE app.options.revenueCat = "absent" -> AfterRevenueCat(core)
                 [] app.options.revenueCat = "lazy" ->
                      AfterRevenueCat(RevenueCatCalled(core))
                 [] OTHER ->
                      [RevenueCatCalled(core) EXCEPT !.pc = "rcAwait"]
  /\ UNCHANGED exceptApp
  /\ UNCHANGED <<mainVars, cacheVars, fetchVars, expiryVars>>

\* await initRC() resumes
RevenueCatAwaited ==
  /\ app.pc = "rcAwait"
  /\ app.rc.pc = "returned"
  /\ app' = AfterRevenueCat(app)
  /\ UNCHANGED exceptApp
  /\ UNCHANGED <<mainVars, cacheVars, fetchVars, expiryVars>>

\* await import('../sw/register.js') resumes: register()
RegisterImported ==
  /\ app.pc = "swImport"
  /\ app' = AfterServiceWorker([app EXCEPT !.calls = Append(@, "register")])
  /\ UNCHANGED exceptApp
  /\ UNCHANGED <<mainVars, cacheVars, fetchVars, expiryVars>>

\* a retry loop that gives up one attempt early
IsLastAttemptEarly(a, n) == a + 1 >= n

\* attempt === maxRetries
IsLastAttempt(a, n) == a = n

\* RC_RETRY_BASE_DELAY_MS * Math.pow(2, attempt)
RcRetryDelay(a) == RC_RETRY_BASE_DELAY_MS * Pow(2, a)

\* the catch block of lines 227-245
RcCatch(a) ==
  LET rc == [a.rc EXCEPT !.outcomes = Append(@, "failed")]
  IN IF IsLastAttempt(rc.attempt, RcMaxRetries(a.options))
     THEN [a EXCEPT !.rc = [rc EXCEPT
                              !.onError = IF a.options.onError
                                          THEN @ + 1 ELSE @,
                              !.pc = "returned"]]
     ELSE [a EXCEPT !.rc = [rc EXCEPT
                              !.delays = Append(@, RcRetryDelay(rc.attempt)),
                              !.elapsed = 0,
                              !.pc = "delay"]]

\* One attempt (lines 209-226) from the await of the import on: it runs
\* while initializeWebApp is waiting or has returned.
RevenueCatAttempt(succeeds) ==
  /\ app.rc.pc = "import"
  /\ app.pc \in {"rcAwait", "swImport", "returned"}
  /\ app' = IF succeeds
            THEN [app EXCEPT !.rc.outcomes = Append(@, "ok"),
                             !.rc.pc = "returned"]
            ELSE RcCatch(app)
  /\ UNCHANGED exceptApp
  /\ UNCHANGED <<mainVars, cacheVars, fetchVars, expiryVars>>

\* time passes while delay(retryDelay) is pending
RevenueCatTick ==
  /\ app.rc.pc = "delay"
  /\ app.rc.elapsed < app.rc.delays[Len(app.rc.delays)]
  /\ app' = [app EXCEPT
               !.rc.elapsed =
                 IF @ + TickMs < app.rc.delays[Len(app.rc.delays)]
                 THEN @ + TickMs ELSE app.rc.delays[Len(app.rc.delays)]]
  /\ UNCHANGED exceptApp
  /\ UNCHANGED <<mainVars, cacheVars, fetchVars, expiryVars>>

\* await delay(retryDelay) resumes: attempt++ and the next import
RevenueCatDelayed ==
  /\ app.rc.pc = "delay"
  /\ app.rc.elapsed = app.rc.delays[Len(app.rc.delays)]
  /\ app.pc \in {"rcAwait", "swImport", "returned"}
  /\ app' = [app EXCEPT !.rc.attempt = @ + 1,
                        !.rc.waited = Append(@, app.rc.elapsed),
                        !.rc.pc = "import"]
  /\ UNCHANGED exceptApp
  /\ UNCHANGED <<mainVars, cacheVars, fetchVars, expiryVars>>

(***************************************************************************)
(* The main-document specification                                         *)
(***************************************************************************)
MainInit ==
  /\ envPROD \in EnvProdValues
  /\ hasServiceWorker \in BOOLEAN
  /\ hasWindow \in BOOLEAN
  /\ protocol \in IF hasWindow THEN Protocols ELSE {"none"}
  /\ hostname \in IF hasWindow THEN Hostnames ELSE {"none"}
  /\ loadFired = FALSE
  /\ controller \in IF hasServiceWorker THEN BOOLEAN ELSE {FALSE}
  /\ workers = [w \in Workers |-> "none"]
  /\ forceEnable = <<>>
  /\ maxRetriesOpt = <<>>
  /\ regPc = "init"
  /\ attempt = 0
  /\ log = <<>>
  /\ loadListeners = 0
  /\ outcomes = <<>>
  /\ timerDelay = 0
  /\ timerElapsed = 0
  /\ delays = <<>>
  /\ waited = <<>>
  /\ intervals = 0
  /\ updateRequested = FALSE
  /\ listened = {}
  /\ installedWithController = 0
  /\ unPc = "init"
  /\ unResult = "none"
  /\ platformResult = "none"
  /\ readyAwaits = 0
  /\ unregisterCalls = 0

CacheEmpty ==
  /\ cacheKeys = [c \in CacheNames |-> <<>>]
  /\ cacheResponses = [c \in CacheNames |-> <<>>]
  /\ trim = TrimIdle
  /\ trimStart = NoCaches
  /\ trimDeleted = <<>>
  /\ trimInterfered = FALSE

\* isExpired is not being evaluated
ExpiryIdle ==
  /\ exDate = NoDate
  /\ exCacheName = STATIC_CACHE
  /\ exExpired = "none"

\* no other event has been dispatched to the worker
EventsIdle ==
  /\ dispatch = NoDispatch
  /\ storage = CacheNames
  /\ activate = ActivateIdle
  /\ install = InstallIdle
  /\ messages = <<>>
  /\ push = NoPush
  /\ click = NoClick
  /\ info = InfoIdle
  /\ app = AppIdle
  /\ trimRuns = TrimsIdle

RestIdle == ExpiryIdle /\ EventsIdle

\* no fetch or sync event has been dispatched to the worker
FetchStart ==
  /\ now = Seconds(0)
  /\ clockSteps = 0
  /\ handlers = [h \in Handlers |-> HandlerIdle]
  /\ settled = HandlerIdle
  /\ puts = {}
  /\ passed = <<>>
  /\ sync = SyncIdle
  /\ rootStored = FALSE

FetchIdle == FetchStart /\ serverSendsDate = TRUE

Init == MainInit /\ CacheEmpty /\ FetchIdle /\ RestIdle

Next ==
  \/ \E fe \in Option(BOOLEAN), mr \in Option(0 .. MaxRetriesBound) :
       RegisterServiceWorker(fe, mr)
  \/ LoadEvent
  \/ RegisterResolves
  \/ RegisterRejects
  \/ Tick
  \/ RetryTimerFires
  \/ UpdateCheck
  \/ \E w \in Workers, installing \in BOOLEAN : UpdateFound(w, installing)
  \/ \E w \in Workers, s \in {"installed", "activating", "activated", "redundant"} :
       WorkerStateChange(w, s)
  \/ ControllerChange

Spec == Init /\ [][Next]_vars

(***************************************************************************)
(* The specification of unregisterServiceWorker                            *)
(***************************************************************************)
NextUnregister ==
  \/ UnregisterServiceWorker
  \/ ReadyResolves
  \/ \E r \in {"true", "false", "rejected"} : UnregisterSettles(r)

SpecUnregister == Init /\ [][NextUnregister]_vars

(***************************************************************************)
(* The worker specification                                                *)
(***************************************************************************)
\* the main document, before any call, on an https production page
MainIdle ==
  /\ MainInit
  /\ envPROD = "true"
  /\ hasServiceWorker
  /\ hasWindow
  /\ protocol = "https:"
  /\ hostname = "example.com"
  /\ controller

InitCache == MainIdle /\ CacheEmpty /\ FetchIdle /\ RestIdle

NextCache ==
  \/ \E c \in CacheNames, k \in Keys : CachePut(c, k)
  \/ \E c \in CacheNames, m \in 0 .. MaxItemsBound : TrimCacheCall(c, m)
  \/ TrimCacheKeys
  \/ TrimCacheDelete
  \/ TrimCacheReturn

SpecCache == InitCache /\ [][NextCache]_vars

\* The trimCache calls of overlapping fetch events, while the handlers of
\* those events store their responses. A trimCache call opens the one
\* cache it is given, so the calls of page requests, which all name the
\* dynamic cache, are the ones that meet.
PageCaches == {DYNAMIC_CACHE}

NextTrims ==
  \/ \E c \in PageCaches, k \in Keys : CachePut(c, k)
  \/ \E i \in TrimIds, c \in PageCaches : TrimRunCall(i, c)
  \/ \E i \in TrimIds : TrimRunKeys(i)
  \/ \E i \in TrimIds : TrimRunDelete(i)
  \/ \E i \in TrimIds : TrimRunReturn(i)

SpecTrims == InitCache /\ [][NextTrims]_vars

(***************************************************************************)
(* The specification of isExpired                                          *)
(***************************************************************************)
\* a cache name that has no entry in CACHE_TTL
OtherCacheNames == {"sudobility-other-v1"}

InitExpiry ==
  /\ MainIdle
  /\ CacheEmpty
  /\ FetchIdle
  /\ exDate \in {NoDate, InvalidDate, DateHeader(0), DateHeader(1)}
  /\ exCacheName \in CacheNames \cup OtherCacheNames
  /\ exExpired = "none"
  /\ EventsIdle

NextExpiry ==
  \/ \E d \in ClockSteps : ClockAdvance(d)
  \/ IsExpiredCall

SpecExpiry == InitExpiry /\ [][NextExpiry]_vars

(***************************************************************************)
(* The specification of the fetch and sync listeners                       *)
(***************************************************************************)
AnyAccept == <<"*", "/", "*">>
NavigateRoot == Request("GET", RootUrl, <<TextHtml \o <<",">> \o AnyAccept>>)
AppJs ==
  Request("GET", Url(Https, ExampleCom, <<"/", "app", ".", "js">>), <<AnyAccept>>)
LogoPng ==
  Request("GET", Url(Https, ExampleCom, <<"/", "logo", ".", "png">>),
          <<<<"image", "/", "*">>>>)
LocaleJson ==
  Request("GET", Url(Https, ExampleCom, <<"/", "locales", "/", "en", ".", "json">>),
          <<AnyAccept>>)
DataJson ==
  Request("GET", Url(Https, ExampleCom, <<"/", "data", ".", "json">>),
          <<<<"application", "/", "json">>>>)
PostRoot == Request("POST", RootUrl, <<AnyAccept>>)
ExtensionJs ==
  Request("GET", Url(<<"chrome-extension", ":">>, <<"abcdef">>,
                     <<"/", "app", ".", "js">>), <<AnyAccept>>)
\* the caches of an installed worker: cache.addAll(PRECACHE_URLS) has stored
\* the responses of the install in the static cache
Precached ==
  /\ cacheKeys = [c \in CacheNames |->
                    IF c = STATIC_CACHE THEN PRECACHE_URLS ELSE <<>>]
  /\ cacheResponses = [c \in CacheNames |->
       IF c = STATIC_CACHE
         THEN [k \in Range(PRECACHE_URLS) |-> Response(TRUE, "v1", ServerDate)]
         ELSE <<>>]
  /\ trim = TrimIdle
  /\ trimStart = NoCaches
  /\ trimDeleted = <<>>
  /\ trimInterfered = FALSE

InitFetch == MainIdle /\ FetchIdle /\ Precached /\ RestIdle

\* the same, with a server that may send no date header
InitCacheFirst ==
  /\ MainIdle
  /\ serverSendsDate \in BOOLEAN
  /\ FetchStart
  /\ Precached
  /\ RestIdle

\* Cache-first traffic: requests for a static asset, while time passes.
CacheFirstRequests == {AppJs}
CacheFirstClockSteps == {Time(0, 1), CACHE_TTL(STATIC_CACHE)[1]}

NextCacheFirst ==
  \/ \E h \in Handlers, request \in CacheFirstRequests : FetchEvent(h, request)
  \/ \E h \in Handlers : CacheFirstMatch(h)
  \/ \E h \in Handlers, response \in NetworkResponses : CacheFirstFetched(h, response)
  \/ \E h \in Handlers : CacheFirstFetchFails(h)
  \/ \E p \in puts : PutLands(p)
  \/ \E d \in CacheFirstClockSteps : ClockAdvance(d)

SpecCacheFirst == InitCacheFirst /\ [][NextCacheFirst]_vars

\* Network-first traffic: navigations to the root document and requests
\* of the default route, with the trims of the HTML route.
NetworkFirstRequests == {NavigateRoot, DataJson}

NextNetworkFirst ==
  \/ \E h \in Handlers, request \in NetworkFirstRequests : FetchEvent(h, request)
  \/ \E h \in Handlers, response \in NetworkResponses : NetworkFirstFetched(h, response)
  \/ \E h \in Handlers : NetworkFirstFetchFails(h)
  \/ \E h \in Handlers : NetworkFirstCatch(h)
  \/ \E p \in puts : PutLands(p)
  \/ TrimCacheKeys
  \/ TrimCacheDelete
  \/ TrimCacheReturn

SpecNetworkFirst == InitFetch /\ [][NextNetworkFirst]_vars

\* Navigations to the root document, with their trims, requests the
\* listener leaves to the browser, and sync events, in a worker whose
\* dynamic cache holds a response networkFirst stored in an earlier run.
SyncRequests == {NavigateRoot, PostRoot, ExtensionJs}

InitSync ==
  /\ MainIdle
  /\ FetchIdle
  /\ RestIdle
  /\ cacheKeys = [c \in CacheNames |->
                    IF c = STATIC_CACHE THEN PRECACHE_URLS
                    ELSE IF c = DYNAMIC_CACHE THEN <<DataJson.url>> ELSE <<>>]
  /\ cacheResponses = [c \in CacheNames |->
       IF c = STATIC_CACHE
         THEN [k \in Range(PRECACHE_URLS) |-> Response(TRUE, "v1", ServerDate)]
       ELSE IF c = DYNAMIC_CACHE
         THEN [k \in {DataJson.url} |-> Response(TRUE, "v1", ServerDate)]
       ELSE <<>>]
  /\ trim = TrimIdle
  /\ trimStart = NoCaches
  /\ trimDeleted = <<>>
  /\ trimInterfered = FALSE

NextSync ==
  \/ \E h \in Handlers, request \in SyncRequests : FetchEvent(h, request)
  \/ \E request \in SyncRequests : FetchEventPassThrough(request)
  \/ \E h \in Handlers, response \in NetworkResponses : NetworkFirstFetched(h, response)
  \/ \E h \in Handlers : NetworkFirstFetchFails(h)
  \/ \E h \in Handlers : NetworkFirstCatch(h)
  \/ \E p \in puts : PutLands(p)
  \/ TrimCacheKeys
  \/ TrimCacheDelete
  \/ TrimCacheReturn
  \/ SyncEvent("background-sync")
  \/ SyncFetched
  \/ SyncFetchFails
  \/ SyncReturn

SpecSync == InitSync /\ [][NextSync]_vars

\* Stale-while-revalidate traffic, while time passes.
StaleRequests == {LocaleJson}
StaleClockSteps == {TimePlus(CACHE_TTL(DYNAMIC_CACHE)[1], Time(0, 1))}

NextStale ==
  \/ \E h \in Handlers, request \in StaleRequests : FetchEvent(h, request)
  \/ \E h \in Handlers : StaleMatch(h)
  \/ \E h \in Handlers, response \in NetworkResponses : StaleFetched(h, response)
  \/ \E h \in Handlers : StaleFetchFails(h)
  \/ \E p \in puts : PutLands(p)
  \/ \E d \in StaleClockSteps : ClockAdvance(d)

SpecStale == InitFetch /\ [][NextStale]_vars

\* The three strategies side by side: a static asset (cacheFirst), a
\* request of the default route (networkFirst) and a locale file
\* (staleWhileRevalidate), in a worker that has just been installed and
\* in a worker that stored a response for each of them more than the
\* longest TTL ago.
StoreRequests == {AppJs, DataJson, LocaleJson}
StoredEarlier ==
  [c \in CacheNames |->
     IF c = STATIC_CACHE THEN PRECACHE_URLS \o <<AppJs.url>>
     ELSE IF c = DYNAMIC_CACHE THEN <<DataJson.url, LocaleJson.url>>
     ELSE <<>>]

InitStores ==
  /\ MainIdle
  /\ RestIdle
  /\ serverSendsDate = TRUE
  /\ clockSteps = 0
  /\ handlers = [h \in Handlers |-> HandlerIdle]
  /\ settled = HandlerIdle
  /\ puts = {}
  /\ passed = <<>>
  /\ sync = SyncIdle
  /\ rootStored = FALSE
  /\ trim = TrimIdle
  /\ trimStart = NoCaches
  /\ trimDeleted = <<>>
  /\ trimInterfered = FALSE
  /\ \/ /\ now = Seconds(0)
        /\ cacheKeys = [c \in CacheNames |->
                          IF c = STATIC_CACHE THEN PRECACHE_URLS ELSE <<>>]
        /\ cacheResponses = [c \in CacheNames |->
             IF c = STATIC_CACHE
               THEN [k \in Range(PRECACHE_URLS) |->
                       Response(TRUE, "v1", DateHeader(0))]
               ELSE <<>>]
     \/ /\ now = TimePlus(CACHE_TTL(IMAGE_CACHE)[1], Time(0, 1))
        /\ cacheKeys = StoredEarlier
        /\ cacheResponses = [c \in CacheNames |->
             [k \in Range(StoredEarlier[c]) |->
                Response(TRUE, "v1", DateHeader(0))]]

\* what the network answers: a new body, or "not found"
StoreResponses ==
  {Response(TRUE, "v2", ServerDate), Response(FALSE, "not found", ServerDate)}

NextStores ==
  \/ \E h \in Handlers, request \in StoreRequests : FetchEvent(h, request)
  \/ \E h \in Handlers : CacheFirstMatch(h)
  \/ \E h \in Handlers, response \in StoreResponses : CacheFirstFetched(h, response)
  \/ \E h \in Handlers : CacheFirstFetchFails(h)
  \/ \E h \in Handlers, response \in StoreResponses : NetworkFirstFetched(h, response)
  \/ \E h \in Handlers : NetworkFirstFetchFails(h)
  \/ \E h \in Handlers : NetworkFirstCatch(h)
  \/ \E h \in Handlers : StaleMatch(h)
  \/ \E h \in Handlers, response \in StoreResponses : StaleFetched(h, response)
  \/ \E h \in Handlers : StaleFetchFails(h)
  \/ \E p \in puts : PutLands(p)

SpecStores == InitStores /\ [][NextStores]_vars

\* Requests for the same URLs with and without an HTML accept header, the
\* header the HTML rule reads, in an installed worker whose network is up,
\* with the trims of the HTML route.
NamespaceResponses == {Response(TRUE, "v2", ServerDate)}
NamespaceUrls == {RootUrl, DataJson.url}
NamespaceAccepts == {<<>>, <<TextHtml \o <<",">> \o AnyAccept>>}
NamespaceRequests ==
  {Request("GET", url, accept) : url \in NamespaceUrls, accept \in NamespaceAccepts}

NextNamespaces ==
  \/ \E h \in Handlers, request \in NamespaceRequests : FetchEvent(h, request)
  \/ \E h \in Handlers, response \in NamespaceResponses : NetworkFirstFetched(h, response)
  \/ \E p \in puts : PutLands(p)
  \/ TrimCacheKeys
  \/ TrimCacheDelete
  \/ TrimCacheReturn

SpecNamespaces == InitFetch /\ [][NextNamespaces]_vars

\* Sync events of either tag on a worker whose dynamic cache holds any of
\* four entries, in any order.
SyncTags == {"background-sync", "periodic-sync"}
ReplayUrls ==
  {RootUrl, DataJson.url, LocaleJson.url,
   Url(Https, ExampleCom, <<"/", "about">>)}

InitReplay ==
  /\ MainIdle
  /\ FetchIdle
  /\ RestIdle
  /\ \E n \in 0 .. Cardinality(ReplayUrls) :
       \E keys \in [1 .. n -> ReplayUrls] :
         /\ \A i, j \in 1 .. n : keys[i] = keys[j] => i = j
         /\ cacheKeys = [c \in CacheNames |->
                           IF c = STATIC_CACHE THEN PRECACHE_URLS
                           ELSE IF c = DYNAMIC_CACHE THEN keys ELSE <<>>]
         /\ cacheResponses = [c \in CacheNames |->
              IF c = STATIC_CACHE
                THEN [k \in Range(PRECACHE_URLS) |-> Response(TRUE, "v1", ServerDate)]
              ELSE IF c = DYNAMIC_CACHE
                THEN [k \in Range(keys) |-> Response(TRUE, "v1", ServerDate)]
              ELSE <<>>]
  /\ trim = TrimIdle
  /\ trimStart = NoCaches
  /\ trimDeleted = <<>>
  /\ trimInterfered = FALSE

NextReplay ==
  \/ \E tag \in SyncTags : SyncEvent(tag)
  \/ SyncFetched
  \/ SyncFetchFails
  \/ SyncReturn

SpecReplay == InitReplay /\ [][NextReplay]_vars

\* Traffic to other hosts and to the API: scripts of an allow-listed CDN
\* host and of a host whose name contains an allow-listed name, and
\* requests to API paths, API subdomains, font providers and other hosts.
CdnJs ==
  Request("GET", Url(Https, <<"unpkg", ".", "com">>, <<"/", "f", ".", "js">>),
          <<AnyAccept>>)
LookalikeJs ==
  Request("GET", Url(Https, <<"unpkg", ".", "com", ".", "evil", ".", "com">>,
                     <<"/", "f", ".", "js">>), <<AnyAccept>>)
ApiJs ==
  Request("GET", Url(Https, ExampleCom, <<"/", "api", "/", "f", ".", "js">>),
          <<AnyAccept>>)
ApiHostPng ==
  Request("GET", Url(Https, <<"api", ".", "unpkg", ".", "com">>,
                     <<"/", "f", ".", "png">>), <<AnyAccept>>)
FontCss ==
  Request("GET", Url(Https, <<"fonts", ".", "googleapis", ".", "com">>,
                     <<"/", "f", ".", "css">>), <<AnyAccept>>)
OtherJs ==
  Request("GET", Url(Https, <<"other", ".", "com">>, <<"/", "f", ".", "js">>),
          <<AnyAccept>>)
IsolationRequests == {CdnJs, LookalikeJs, ApiJs, ApiHostPng, FontCss, OtherJs}

NextIsolation ==
  \/ \E h \in Handlers, request \in IsolationRequests : FetchEvent(h, request)
  \/ \E request \in IsolationRequests : FetchEventPassThrough(request)
  \/ \E h \in Handlers : CacheFirstMatch(h)
  \/ \E h \in Handlers, response \in NetworkResponses : CacheFirstFetched(h, response)
  \/ \E h \in Handlers : CacheFirstFetchFails(h)
  \/ \E p \in puts : PutLands(p)

SpecIsolation == InitFetch /\ [][NextIsolation]_vars

\* Activation of an installed worker, for every set of existing caches:
\* the static cache exists since the install.
InitActivate ==
  /\ MainIdle
  /\ FetchIdle
  /\ info = InfoIdle
  /\ app = AppIdle
  /\ trimRuns = TrimsIdle
  /\ Precached
  /\ ExpiryIdle
  /\ dispatch = NoDispatch
  /\ activate = ActivateIdle
  /\ install = InstallIdle
  /\ messages = <<>>
  /\ push = NoPush
  /\ click = NoClick
  /\ \E names \in SUBSET StorageNames : storage = names \cup {STATIC_CACHE}

NextActivate ==
  \/ ActivateEvent
  \/ \E name \in StorageNames : ActivateDeleted(name)
  \/ ActivateClaim

SpecActivate == InitActivate /\ [][NextActivate]_vars

\* Installation of a worker, on empty caches or on the caches an earlier
\* worker of the same version filled, with messages from the clients.
MessageTypes == {"SKIP_WAITING", "PING", "none"}

InitInstall ==
  /\ MainIdle
  /\ FetchIdle
  /\ info = InfoIdle
  /\ app = AppIdle
  /\ trimRuns = TrimsIdle
  /\ ExpiryIdle
  /\ dispatch = NoDispatch
  /\ activate = ActivateIdle
  /\ install = InstallIdle
  /\ messages = <<>>
  /\ push = NoPush
  /\ click = NoClick
  /\ \/ CacheEmpty /\ storage = {}
     \/ Precached /\ storage = CacheNames

NextInstall ==
  \/ InstallEvent
  \/ \E bodies \in [DOMAIN PRECACHE_URLS -> Bodies] : InstallAddAllResolves(bodies)
  \/ InstallAddAllRejects
  \/ InstallSettles
  \/ \E type \in MessageTypes : MessageEvent(type)

SpecInstall == InitInstall /\ [][NextInstall]_vars

\* The push listener on its own, for payloads of every kind.
MemberValues(name) ==
  CASE name = "title" -> {"", "Hello"}
    [] name = "body"  -> {"text"}
    [] name = "icon"  -> {"", "/icon.png"}
    [] name = "badge" -> {"", "/badge.png"}
    [] name = "data"  -> {"/inbox"}
MemberNames == {"title", "body", "icon", "badge", "data"}
JsonObjects ==
  UNION {{JsonObject(members) :
            members \in {f \in [names -> {"", "Hello", "text", "/icon.png",
                                          "/badge.png", "/inbox"}] :
                           \A name \in names : f[name] \in MemberValues(name)}} :
         names \in SUBSET MemberNames}
Payloads ==
  {NoPayload, Malformed}
    \cup {PayloadOf(value) :
            value \in {JsonNull, JsonNumber, JsonString, JsonArray} \cup JsonObjects}

InitPush ==
  /\ MainIdle
  /\ FetchIdle
  /\ info = InfoIdle
  /\ app = AppIdle
  /\ trimRuns = TrimsIdle
  /\ Precached
  /\ ExpiryIdle
  /\ dispatch = NoDispatch
  /\ storage = CacheNames
  /\ activate = ActivateIdle
  /\ install = InstallIdle
  /\ messages = <<>>
  /\ click = NoClick
  /\ \E payload \in Payloads : push = Pushed(payload)

NextPush == PushListener

SpecPush == InitPush /\ [][NextPush]_vars

\* The notificationclick listener on its own. A window client's url is an
\* absolute URL; the url of the notification's data is whatever the push
\* payload gave. openWindow exists wherever the event is dispatched.
ClientUrls == {"https://example.com/", "https://example.com/inbox"}
ClickActions == {"", "open", "dismiss"}
ClickData ==
  {NoData, DataWith("undefined"), DataWith(""), DataWith("/inbox"),
   DataWith("https://example.com/"), DataWith("https://example.com/inbox")}

InitClick ==
  /\ MainIdle
  /\ FetchIdle
  /\ info = InfoIdle
  /\ app = AppIdle
  /\ trimRuns = TrimsIdle
  /\ Precached
  /\ ExpiryIdle
  /\ dispatch = NoDispatch
  /\ storage = CacheNames
  /\ activate = ActivateIdle
  /\ install = InstallIdle
  /\ messages = <<>>
  /\ push = NoPush
  /\ \E action \in ClickActions, data \in ClickData, n \in 0 .. MaxClients :
       \E clients \in [1 .. n -> ClientUrls] :
         click = Clicked(action, data, clients, TRUE)

NextClick ==
  \/ ClickListener
  \/ ClickMatched

SpecClick == InitClick /\ [][NextClick]_vars

\* The fetch listener on its own, for requests of every kind.
RequestMethods == {"GET", "POST"}
UrlProtocols == {Https, <<"http", ":">>, <<"chrome-extension", ":">>}
UnpkgCom == <<"unpkg", ".", "com">>
UrlHosts ==
  {ExampleCom, UnpkgCom, <<"cdn", ".", "jsdelivr", ".", "net">>,
   <<"unpkg", ".", "com", ".", "evil", ".", "com">>,
   <<"evil", "unpkg", ".", "com">>,
   <<"api", ".", "unpkg", ".", "com">>,
   <<"api", ".", "example", ".", "com">>,
   <<"fonts", ".", "googleapis", ".", "com">>,
   <<"fonts", ".", "gstatic", ".", "com">>,
   <<"other", ".", "com">>}
Extensions ==
  {"js", "css", "woff", "woff2", "ttf", "eot",
   "png", "jpg", "jpeg", "svg", "webp", "gif", "ico",
   "json", "html", "map", "jsx"}
UrlPaths ==
  {RootPath, <<"/", "about">>, <<"/", "v1", ".", "2", "/", "page">>,
   <<"/", "assets", "/", "f">>, <<"/", "api", "/", "f">>,
   <<"/", "api">>}
  \cup {<<"/", "f", ".", ext>> : ext \in Extensions}
  \cup {<<"/", dir, "/", "f", ".", ext>> :
          dir \in {"assets", "locales", "api"}, ext \in {"js", "png", "json"}}
AcceptHeaders ==
  {<<>>, <<AnyAccept>>,
   <<<<"text", "/", "html", ",", "application", "/", "xhtml+xml">>>>}
Requests ==
  {Request(method, Url(proto, host, path), accept) :
     method \in RequestMethods, proto \in UrlProtocols, host \in UrlHosts,
     path \in UrlPaths, accept \in AcceptHeaders}

InitDispatch ==
  /\ MainIdle
  /\ FetchIdle
  /\ info = InfoIdle
  /\ app = AppIdle
  /\ trimRuns = TrimsIdle
  /\ Precached
  /\ ExpiryIdle
  /\ storage = CacheNames
  /\ activate = ActivateIdle
  /\ install = InstallIdle
  /\ messages = <<>>
  /\ push = NoPush
  /\ click = NoClick
  /\ \E request \in Requests : dispatch = Dispatched(request)

NextDispatch == FetchListener

SpecDispatch == InitDispatch /\ [][NextDispatch]_vars

(***************************************************************************)
(* The banner service on its own                                           *)
(***************************************************************************)
InitInfo == MainIdle /\ CacheEmpty /\ FetchIdle /\ RestIdle

NextInfo ==
  \/ \E title \in Titles, text \in Texts, type \in InfoTypes,
        interval \in Intervals : InfoShow(title, text, type, interval)
  \/ InfoDismiss
  \/ InfoTimerFires
  \/ InfoAdvance

SpecInfo == InitInfo /\ [][NextInfo]_vars

(***************************************************************************)
(* The subscriptions of the banner service, with several listeners         *)
(***************************************************************************)
SubscribeIntervals == {Ms(TickMs)}

NextSubscribe ==
  \/ \E title \in Titles, interval \in SubscribeIntervals :
       InfoShow(title, "Message", "info", interval)
  \/ InfoDismiss
  \/ InfoTimerFires
  \/ InfoAdvance
  \/ \E listener \in Listeners : InfoSubscribe(listener)
  \/ \E listener \in Listeners : InfoUnsubscribe(listener)

SpecSubscribe == InitInfo /\ [][NextSubscribe]_vars

(***************************************************************************)
(* The application start on its own                                        *)
(***************************************************************************)
RevenueCatOptions == {"absent", "eager", "lazy"}
ServiceWorkerOptions == {"true", "false", "function", "undefined"}

InitApp ==
  /\ MainIdle
  /\ CacheEmpty
  /\ FetchIdle
  /\ ExpiryIdle
  /\ dispatch = NoDispatch
  /\ storage = CacheNames
  /\ activate = ActivateIdle
  /\ install = InstallIdle
  /\ messages = <<>>
  /\ push = NoPush
  /\ click = NoClick
  /\ info = InfoIdle
  /\ trimRuns = TrimsIdle
  /\ \E revenueCat \in RevenueCatOptions,
        retries \in Option(0 .. MaxRcRetries),
        onError \in BOOLEAN, initializeI18n \in BOOLEAN,
        registerServiceWorker \in ServiceWorkerOptions,
        initWebVitals \in BOOLEAN :
       app = [AppIdle EXCEPT
                !.options = WebAppInitOptions(revenueCat, retries, onError,
                                              initializeI18n,
                                              registerServiceWorker,
                                              initWebVitals)]

NextApp ==
  \/ InitializeWebApp
  \/ RevenueCatAwaited
  \/ RegisterImported
  \/ \E succeeds \in BOOLEAN : RevenueCatAttempt(succeeds)
  \/ RevenueCatTick
  \/ RevenueCatDelayed

SpecApp == InitApp /\ [][NextApp]_vars

(***************************************************************************)
(* Properties of the registration controller                               *)
(***************************************************************************)
Rep(x, n) == [i \in 1 .. n |-> x]
\* the production-mode flag, as the options and the build environment give it
FlagIsTrue ==
  forceEnable = <<TRUE>> \/ (forceEnable = <<>> /\ envPROD = "true")
\* registerServiceWorker has been called
Called == regPc # "init"
\* register() rejected on every call that has settled
AlwaysRejected == \A i \in DOMAIN outcomes : outcomes[i] = "rej"

\* C1: when register() rejects on the first k <= maxRetries attempts and
\* resolves on attempt k+1, onStateChange received registering, then k times
\* error, then registered, in that order (followed by nothing but the
\* update-available notifications of later worker updates), and register()
\* was called exactly k+1 times.
C1_RetryThenSuccess ==
  \A k \in 0 .. maxRetries :
    outcomes = Rep("rej", k) \o <<"ok">> =>
      /\ Len(Emitted) >= k + 2
      /\ SubSeq(Emitted, 1, k + 2) =
           <<"registering">> \o Rep("error", k) \o <<"registered">>
      /\ \A i \in (k + 3) .. Len(Emitted) : Emitted[i] = "update-available"
      /\ RegCalls = k + 1
C1_Witness ==
  /\ maxRetriesOpt = <<2>>
  /\ outcomes = <<"rej", "rej", "ok">>
  /\ Emitted = <<"registering", "error", "error", "registered">>
  /\ RegCalls = 3

\* C2: when register() always rejects, the controller calls it exactly
\* maxRetries + 1 times (maxRetries is 3 when the option is left out),
\* delivers registering and then one error per call and nothing else, and
\* once the last error is delivered it holds no timer, arms none and can
\* take no further step.
C2_GivesUp ==
  /\ (maxRetriesOpt = <<>> => maxRetries = 3)
  /\ (Called /\ AlwaysRejected) =>
       /\ RegCalls <= maxRetries + 1
       /\ Len(delays) <= maxRetries
       /\ intervals = 0
       /\ "registered" \notin Range(Emitted)
       /\ "update-available" \notin Range(Emitted)
       /\ (RegCalls > 0 =>
             Emitted = <<"registering">> \o Rep("error", Len(outcomes)))
  /\ (Len(outcomes) = maxRetries + 1 /\ AlwaysRejected) =>
       /\ regPc = "gaveup"
       /\ RegCalls = maxRetries + 1
       /\ Emitted = <<"registering">> \o Rep("error", maxRetries + 1)
       /\ Len(delays) = maxRetries
       /\ Len(waited) = maxRetries
       /\ ~ENABLED (RegisterResolves \/ RegisterRejects \/ Tick
                      \/ RetryTimerFires \/ UpdateCheck)
C2_Witness ==
  /\ maxRetriesOpt = <<>>
  /\ regPc = "gaveup"
  /\ RegCalls = 4
  /\ Emitted = <<"registering", "error", "error", "error", "error">>

\* C3: the i-th retry timer, armed after the failed attempt a = i-1, is
\* given the delay 1000 * 2^a ms; a timer is armed only for a < maxRetries;
\* every retry call of register() is made by a timer that fired, and none
\* fired before its delay had elapsed.
C3_BackoffDelays ==
  /\ \A i \in DOMAIN delays : delays[i] = 1000 * 2 ^ (i - 1)
  /\ Len(delays) <= maxRetries
  /\ (regPc = "timer" =>
        /\ attempt < maxRetries
        /\ timerDelay = 1000 * 2 ^ attempt
        /\ Len(delays) = attempt + 1)
  /\ Len(waited) <= Len(delays)
  /\ \A i \in DOMAIN waited : waited[i] >= 1000 * 2 ^ (i - 1)
  /\ (RegCalls > 0 => RegCalls = Len(waited) + 1)
C3_Witness ==
  /\ delays = <<1000, 2000, 4000>>
  /\ Len(waited) = 3
  /\ RegCalls = 4

\* C4: with registration enabled, the worker capability present and a page
\* to read the location from, insecure-context is delivered if and only if
\* the protocol is not https: and the host is neither localhost nor
\* 127.0.0.1; then it is the only state ever delivered, no load listener is
\* installed and register() is never called; otherwise the load listener is
\* installed.
C4_InsecureContext ==
  (Called /\ FlagIsTrue /\ hasServiceWorker /\ hasWindow) =>
    LET insecure == /\ protocol # "https:"
                    /\ hostname \notin {"localhost", "127.0.0.1"}
    IN /\ ("insecure-context" \in Range(Emitted)) <=> insecure
       /\ insecure => /\ log = <<"insecure-context">>
                      /\ loadListeners = 0
                      /\ regPc = "insecure-context"
                      /\ delays = <<>>
       /\ ~insecure => /\ loadListeners = 1
                       /\ regPc \in {"listening", "awaiting", "timer",
                                     "registered", "gaveup"}
C4_Witness ==
  /\ FlagIsTrue /\ hasServiceWorker
  /\ protocol = "http:" /\ hostname = "example.com"
  /\ log = <<"insecure-context">>
  /\ loadFired

\* C5: with registration enabled and no worker capability, unsupported is
\* the only state ever delivered, whatever the protocol and host are;
\* register() is never called and no timer is armed.
C5_Unsupported ==
  (Called /\ FlagIsTrue /\ ~hasServiceWorker) =>
    /\ log = <<"unsupported">>
    /\ regPc = "unsupported"
    /\ loadListeners = 0
    /\ delays = <<>>
    /\ intervals = 0
C5_Witness ==
  /\ FlagIsTrue /\ ~hasServiceWorker
  /\ hasWindow /\ protocol = "http:" /\ hostname = "example.com"
  /\ log = <<"unsupported">>
  /\ loadFired

\* C6: when the production-mode flag is false (forceEnable false, or
\* forceEnable absent and PROD not true) the call does nothing: nothing is
\* delivered, no listener installed, no register() call, no timer; and a
\* given forceEnable decides alone: true never ends in the no-op, false
\* always does.
C6_DisabledIsNoOp ==
  Called =>
    /\ ~FlagIsTrue => /\ regPc = "noop"
                      /\ log = <<>>
                      /\ loadListeners = 0
                      /\ delays = <<>>
                      /\ intervals = 0
    /\ forceEnable = <<TRUE>> => regPc # "noop"
    /\ forceEnable = <<FALSE>> => regPc = "noop"
C6_Witness ==
  /\ regPc = "noop"
  /\ forceEnable = <<FALSE>> /\ envPROD = "true"
  /\ hasServiceWorker /\ protocol = "https:"
  /\ loadFired

\* C7: once the guards have passed, nothing is delivered and register() is
\* not called before the load event; the load listener delivers registering
\* first and calls register() right after it, and registering is never
\* delivered again, however many retries follow.
C7_RegisteringOnceOnLoad ==
  /\ regPc = "listening" => log = <<>>
  /\ (log # <<>> /\ regPc \notin {"unsupported", "insecure-context"}) =>
       /\ loadFired
       /\ Len(log) >= 2
       /\ log[1] = "registering"
       /\ log[2] = "register()"
       /\ Count(log, "registering") = 1
C7_Witness ==
  /\ regPc = "gaveup"
  /\ RegCalls = 3
  /\ Count(log, "registering") = 1

\* C8: update-available is delivered once for each worker that the
\* updatefound listener found and that then changed state to installed
\* while a controller was set, and at no other time; it always comes after
\* registered.
C8_UpdateAvailable ==
  /\ Count(Emitted, "update-available") = installedWithController
  /\ \A i \in DOMAIN Emitted :
       Emitted[i] = "update-available" =>
         \E j \in 1 .. (i - 1) : Emitted[j] = "registered"
  /\ (listened # {} => "registered" \in Range(Emitted))
C8_Witness ==
  /\ Count(Emitted, "update-available") = 1
  /\ \E w \in listened : workers[w] = "activated"

\* C9 as stated: whenever the worker capability exists the result is true,
\* whatever the platform's unregister call reported.
C9_ResultIsCapability ==
  unPc = "done" => unResult = (IF hasServiceWorker THEN "true" ELSE "false")

\* C9: without the worker capability unregisterServiceWorker returns false
\* and awaits nothing; with it, it awaits readiness, calls unregister()
\* exactly once, and settles as that call settled: true only when the
\* platform reports that it unregistered, false or a rejection otherwise.
C9_ResultIsPlatformResult ==
  /\ unregisterCalls <= 1 /\ readyAwaits <= 1
  /\ (unPc = "done" /\ ~hasServiceWorker) =>
       /\ unResult = "false"
       /\ readyAwaits = 0
       /\ unregisterCalls = 0
  /\ (unPc = "done" /\ hasServiceWorker) =>
       /\ readyAwaits = 1
       /\ unregisterCalls = 1
       /\ platformResult \in {"true", "false", "rejected"}
       /\ unResult = platformResult
  /\ (unPc = "awaitReady" => unregisterCalls = 0 /\ unResult = "none")
C9_Witness ==
  /\ hasServiceWorker
  /\ unPc = "done"
  /\ platformResult = "false"
  /\ unResult = "false"

(***************************************************************************)
(* Properties of the worker                                                *)
(***************************************************************************)
\* C10: a trimCache(cacheName, maxItems) that ran to completion with no
\* other writer, on a cache holding n entries: when n > maxItems it leaves
\* exactly the maxItems most recently inserted entries, in their order,
\* having deleted the n - maxItems oldest, oldest first; when n <= maxItems
\* it deletes nothing; no other cache is touched.
C10_TrimIsFifo ==
  (trim.pc = "done" /\ ~trimInterfered) =>
    LET before == trimStart[trim.cacheName]
        n == Len(before)
        m == trim.maxItems
    IN /\ \A c \in CacheNames \ {trim.cacheName} : cacheKeys[c] = trimStart[c]
       /\ IF n > m
            THEN /\ Len(cacheKeys[trim.cacheName]) = m
                 /\ cacheKeys[trim.cacheName] = SubSeq(before, n - m + 1, n)
                 /\ trimDeleted = SubSeq(before, 1, n - m)
            ELSE /\ cacheKeys[trim.cacheName] = before
                 /\ trimDeleted = <<>>
C10_Witness ==
  /\ trim.pc = "done" /\ ~trimInterfered
  /\ trim.maxItems = 1
  /\ Len(trimStart[trim.cacheName]) = 3
  /\ Len(trimDeleted) = 2
  /\ Len(cacheKeys[trim.cacheName]) = 1

\* no strategy, cache.put, trimCache or doBackgroundSync is under way
Quiescent ==
  /\ \A h \in Handlers : handlers[h].pc = "idle"
  /\ puts = {}
  /\ trim.pc = "idle"
  /\ sync.pc = "idle"

\* C11: in every quiescent state (no fetch handler, cache write or trim in
\* progress) the static, the dynamic and the image cache each hold at most
\* CACHE_LIMITS entries.
C11_QuiescentWithinLimits ==
  Quiescent => \A c \in CacheNames : Len(cacheKeys[c]) <= CACHE_LIMITS(c)

\* the age Date.now() - new Date(dateHeader).getTime() of the response
\* that isExpired was given
ExAge == TimeMinus(now, GetTime(exDate)[1])
\* isExpired was given a response with a valid date and a cache name that
\* has a TTL, and has returned
ExDated ==
  /\ exExpired # "none"
  /\ exDate # NoDate
  /\ GetTime(exDate) # <<>>
  /\ CACHE_TTL(exCacheName) # <<>>

\* C12: for every cache name with a TTL, isExpired reports an entry whose
\* age is exactly the TTL as not expired and one whose age is the TTL plus
\* one millisecond as expired: expired if and only if the age is strictly
\* greater than the TTL.
C12_ExpiredBoundary ==
  ExDated =>
    LET ttl == CACHE_TTL(exCacheName)[1]
    IN /\ ExAge = ttl => exExpired = "false"
       /\ ExAge = TimePlus(ttl, Time(0, 1)) => exExpired = "true"
       /\ exExpired = "true" <=> TimeGreater(ExAge, ttl)

C12_Witness ==
  /\ ExDated
  /\ exCacheName = IMAGE_CACHE
  /\ exDate = DateHeader(0)
  /\ ExAge = CACHE_TTL(IMAGE_CACHE)[1]
  /\ exExpired = "false"


\* the strategies that are running or have run to their end
Strategies == {handlers[h] : h \in Handlers} \cup {settled}
\* a run of cacheFirst whose cache.match resolved with a response that has
\* no date header, or on a cache that has no TTL
CacheFirstUndated(H) ==
  /\ H.strategy = "cacheFirst"
  /\ H.cached # <<>>
  /\ H.cached[1].date = NoDate \/ CACHE_TTL(H.cacheName) = <<>>

\* C13: a response without date header, or of a cache that has no TTL, is
\* never reported expired by isExpired, whatever the time; cacheFirst
\* returns such a cached response without a network fetch.
C13_UndatedNeverExpires ==
  /\ \A c \in CacheNames \cup OtherCacheNames : ~isExpired(NoDate, c)
  /\ \A c \in OtherCacheNames, d \in {DateHeader(0), InvalidDate} :
       ~isExpired(d, c)
  /\ \A H \in Strategies :
       CacheFirstUndated(H) =>
         /\ H.pc = "settled"
         /\ H.fetches = 0
         /\ H.result = FromCache(H.cached[1])

C13_Witness ==
  /\ CacheFirstUndated(settled)
  /\ settled.result = FromCache(settled.cached[1])
  /\ TimeGreater(settled.at, CACHE_TTL(settled.cacheName)[1])

\* the put of the response a strategy has settled with
PutOf(H) ==
  [cacheName |-> H.cacheName, url |-> H.request.url,
   response |-> H.result.response]
\* the age of the cached response of a strategy when it settled
AgeWhenSettled(H) == TimeMinus(H.at, GetTime(H.cached[1].date)[1])
\* a run of cacheFirst whose cache.match resolved with a response that has
\* a date header no older than the TTL of the cache
CacheFirstFresh(H) ==
  /\ H.strategy = "cacheFirst"
  /\ H.pc = "settled"
  /\ H.cached # <<>>
  /\ H.cached[1].date # NoDate
  /\ ~TimeGreater(AgeWhenSettled(H), CACHE_TTL(H.cacheName)[1])
\* a strategy settles in this step
Settles == settled' # settled
\* a put takes effect in this step
Lands(p) == p \in puts /\ p \notin puts'

\* C14: a cacheFirst request for a static asset that finds no entry makes
\* exactly one network fetch, and when the response is ok a put of that
\* response under the request is started, which stores it; a later
\* identical request that finds the entry within the TTL makes no network
\* fetch and returns the cached response.
C14_ScenarioA ==
  /\ [](settled.strategy = "cacheFirst" /\ settled.cached = <<>>
          => settled.fetches = 1)
  /\ [][Settles /\ settled'.strategy = "cacheFirst"
          /\ settled'.result.source = "network" /\ settled'.result.response.ok
          => PutOf(settled') \in puts']_vars
  /\ [][\A p \in puts : Lands(p) =>
          /\ p.url \in DOMAIN cacheResponses'[p.cacheName]
          /\ cacheResponses'[p.cacheName][p.url] = p.response]_vars
  /\ [](CacheFirstFresh(settled)
          => settled.fetches = 0
             /\ settled.result = FromCache(settled.cached[1]))

C14_Witness ==
  /\ CacheFirstFresh(settled)
  /\ settled.request = AppJs
  /\ AgeWhenSettled(settled) = CACHE_TTL(STATIC_CACHE)[1]
  /\ settled.fetches = 0
  /\ settled.result = FromCache(settled.cached[1])

\* cacheFirst settles in this step with the response of the network, which
\* is ok
CacheFirstStores ==
  /\ Settles
  /\ settled'.strategy = "cacheFirst"
  /\ settled'.result.source = "network"
  /\ settled'.result.response.ok
\* cacheFirst settles in this step with the response its cache.match read
CacheFirstReadsBack ==
  /\ Settles
  /\ settled'.strategy = "cacheFirst"
  /\ settled'.result.source = "cache"
  /\ settled'.fetches = 0

\* C15: the response cacheFirst stores is the network's response (same
\* status, body and date) and storing it leaves the response returned to
\* the caller unread; the stored response is kept as it is until it is
\* read back, and a later identical request served from the cache gets
\* exactly the stored response.
C15_RoundTrip ==
  /\ [][CacheFirstStores =>
          /\ ~settled'.result.response.used
          /\ \E p \in puts' :
               /\ p.cacheName = settled'.cacheName
               /\ p.url = settled'.request.url
               /\ p.response.ok = settled'.result.response.ok
               /\ p.response.body = settled'.result.response.body
               /\ p.response.date = settled'.result.response.date
               /\ ~p.response.used]_vars
  /\ [][\A p \in puts : Lands(p) =>
          CacheMatch(p.cacheName, p.url)' = <<p.response>>]_vars
  /\ [][CacheFirstReadsBack =>
          <<settled'.result.response>>
            = CacheMatch(settled'.cacheName, settled'.request.url)]_vars

C15_Witness ==
  /\ settled.strategy = "cacheFirst"
  /\ settled.request = AppJs
  /\ settled.result.source = "cache"
  /\ settled.result.response.body = "v2"
  /\ ~settled.result.response.used
  /\ settled.fetches = 0
  /\ CacheMatch(STATIC_CACHE, AppJs.url) = <<settled.result.response>>

\* a run of networkFirst for the root document whose fetch was rejected
\* (the network is down), dispatched when the dynamic cache had at some
\* earlier time stored an answer to a request for the root document
RootOffline(H) ==
  /\ H.pc = "settled"
  /\ H.strategy = "networkFirst"
  /\ H.request.url = RootUrl
  /\ H.result.source # "network"
  /\ H.rootStored

\* C16: when a request for / was answered with an ok response that was
\* stored in the dynamic cache at some earlier time, a later request for /
\* whose fetch fails is answered with the entry of the dynamic cache,
\* whatever fetch, trim and sync events came in between.
C16_ScenarioB ==
  RootOffline(settled) => settled.result.source = "cache"

\* a run of cacheFirst whose fetch was rejected
CacheFirstFailed(H) ==
  /\ H.pc = "settled"
  /\ H.strategy = "cacheFirst"
  /\ H.fetches = 1
  /\ H.result.source # "network"

\* C17: when its fetch fails, cacheFirst returns the cached response if
\* there is one, even an expired one; otherwise the stored root document,
\* and only for a navigation; otherwise (no navigation, or no stored root
\* document) it rejects with the failure, and does not resolve with a
\* fallback or with undefined.
C17_CacheFirstFailure ==
  CacheFirstFailed(settled) =>
    IF settled.cached # <<>>
      THEN settled.result = FromCache(settled.cached[1])
    ELSE IF AcceptsHtml(settled.request) /\ CachesMatchRoot # <<>>
      THEN settled.result.source = "fallback"
    ELSE settled.result = Rejected

\* a run of networkFirst whose fetch was rejected
NetworkFirstFailed(H) ==
  /\ H.pc = "settled"
  /\ H.strategy = "networkFirst"
  /\ H.result.source # "network"

\* C18: networkFirst always calls fetch first and reads the cache only
\* after the fetch has failed; when the fetch fails it returns the cached
\* response of the request if there is one, else the root document of
\* caches.match('/') only when the request accepts text/html, else it
\* rejects with the failure.
C18_NetworkFirst ==
  \A H \in Strategies :
    H.strategy = "networkFirst" =>
      /\ H.pc = "fetch" => H.fetches = 0 /\ H.matches = 0 /\ H.cached = <<>>
      /\ H.pc = "match" => H.fetches = 1 /\ H.matches = 0
      /\ H.pc = "settled" => H.fetches = 1
      /\ H.pc = "settled" /\ H.result.source = "network" => H.matches = 0
      /\ NetworkFirstFailed(H) =>
           /\ H.matches = 1
           /\ IF H.cached # <<>> THEN H.result = FromCache(H.cached[1])
              ELSE IF AcceptsHtml(H.request)
                THEN H.result.source = "fallback" \/ H.result = Undefined
              ELSE H.result = Rejected

C18_Witness ==
  /\ NetworkFirstFailed(settled)
  /\ settled.request = DataJson
  /\ settled.cached = <<>>
  /\ settled.result = Rejected
  /\ CachesMatchRoot # <<>>

\* a run of staleWhileRevalidate that has read its cache
StaleRead(H) ==
  H.strategy = "staleWhileRevalidate" /\ H.pc \in {"fetch", "settled"}
\* staleWhileRevalidate settles in this step: its fetch has resolved or
\* was rejected
StaleSettles == Settles /\ settled'.strategy = "staleWhileRevalidate"

\* C19: staleWhileRevalidate returns the cached response, whatever its
\* age, as soon as it has read it and while its fetch is still under way;
\* it starts exactly one fetch, and a put of the fetched response when
\* that is ok, which replaces the entry; with nothing cached the caller
\* gets what the network gives; a failed fetch changes neither the cache
\* nor the response already returned.
C19_StaleWhileRevalidate ==
  /\ [](\A H \in Strategies :
          StaleRead(H) =>
            /\ H.fetches = 1
            /\ H.cached # <<>> => H.result = FromCache(H.cached[1])
            /\ H.cached = <<>> /\ H.pc = "fetch" => H.result = Pending
            /\ H.cached = <<>> /\ H.pc = "settled" =>
                 H.result = IF H.fetched = <<>> THEN Rejected
                            ELSE FromNetwork(H.fetched[1]))
  /\ [][StaleSettles =>
          puts' = IF settled'.fetched # <<>> /\ settled'.fetched[1].ok
                    THEN puts \cup {[cacheName |-> settled'.cacheName,
                                     url |-> settled'.request.url,
                                     response |-> settled'.fetched[1]]}
                    ELSE puts]_vars
  /\ [][StaleSettles => UNCHANGED <<cacheKeys, cacheResponses>>]_vars
  /\ [][\A p \in puts : Lands(p) =>
          /\ CacheMatch(p.cacheName, p.url)' = <<p.response>>
          /\ cacheKeys'[p.cacheName][Len(cacheKeys'[p.cacheName])] = p.url]_vars

C19_Witness ==
  /\ \E h \in Handlers :
       /\ handlers[h].strategy = "staleWhileRevalidate"
       /\ handlers[h].pc = "fetch"
       /\ handlers[h].cached # <<>>
       /\ handlers[h].result = FromCache(handlers[h].cached[1])
       /\ isExpired(handlers[h].cached[1].date, DYNAMIC_CACHE)
  /\ settled.strategy = "staleWhileRevalidate"
  /\ settled.cached # <<>>
  /\ settled.fetched # <<>>
  /\ settled.fetched[1].ok
  /\ settled.fetched[1] # settled.cached[1]

\* a request the claim exempts: its method is not GET, or the scheme of
\* its URL is neither http nor https
NotGetOrNotHttp(request) ==
  \/ request.method # "GET"
  \/ request.url.protocol \notin {<<"http", ":">>, Https}
\* the listener was given a request in this step and returned without
\* event.respondWith
PassesThrough == passed' # passed

\* C20: a request whose method is not GET, or whose URL scheme is not http
\* or https, is left alone in every state of the caches: no strategy is
\* started for it, and the event changes no cache, starts no put and no
\* trim.
C20_PassThroughUntouched ==
  /\ [](\A H \in Strategies : H.pc # "idle" => ~NotGetOrNotHttp(H.request))
  /\ [](\A request \in SyncRequests :
          NotGetOrNotHttp(request) => Route(request) = PassThrough)
  /\ [][PassesThrough =>
          /\ NotGetOrNotHttp(passed'[1])
          /\ UNCHANGED <<cacheVars, handlers, settled, puts, sync>>]_vars

C20_Witness ==
  /\ passed = <<PostRoot>>
  /\ RootUrl \in DOMAIN cacheResponses[DYNAMIC_CACHE]
  /\ trim.pc = "keys"
  /\ sync.pc = "loop"


\* the file extension of a path is one of exts
HasExtension(path, exts) ==
  Len(path) >= 2 /\ path[Len(path) - 1] = "." /\ path[Len(path)] \in exts

\* the isolation filters, as stated: only GET, only http(s), no
\* font-provider host, same origin or an allow-listed host, no API path
\* or API subdomain
FontProviders ==
  {<<"fonts", ".", "googleapis", ".", "com">>,
   <<"fonts", ".", "gstatic", ".", "com">>}
IsApi(url) ==
  \/ StartsWith(url.pathname, <<"/", "api", "/">>)
  \/ url.hostname[1] = "api" /\ url.hostname[2] = "."
CrossOrigin(url) == <<url.protocol, url.hostname>> # <<Https, ExampleCom>>
PassesFilters(request) ==
  /\ request.method = "GET"
  /\ request.url.protocol \in {<<"http", ":">>, Https}
  /\ request.url.hostname \notin FontProviders
  /\ ~CrossOrigin(request.url) \/ request.url.hostname \in ALLOWED_CDN_DOMAINS
  /\ ~IsApi(request.url)

\* the five rules, in the stated order
RuleMatches(i, request) ==
  LET path == request.url.pathname
  IN CASE i = 1 -> \/ HasExtension(path, {"js", "css", "woff", "woff2", "ttf", "eot"})
                   \/ StartsWith(path, <<"/", "assets", "/">>)
       [] i = 2 -> HasExtension(path, {"png", "jpg", "jpeg", "svg", "webp", "gif", "ico"})
       [] i = 3 -> StartsWith(path, <<"/", "locales", "/">>)
       [] i = 4 -> \/ \E a \in Range(request.accept) : Includes(a, TextHtml)
                   \/ path = <<"/">>
                   \/ "." \notin Range(path)
       [] i = 5 -> TRUE
RuleResponds(i) ==
  CASE i = 1 -> [strategy |-> "cacheFirst", cacheName |-> STATIC_CACHE]
    [] i = 2 -> [strategy |-> "cacheFirst", cacheName |-> IMAGE_CACHE]
    [] i = 3 -> [strategy |-> "staleWhileRevalidate", cacheName |-> DYNAMIC_CACHE]
    [] i = 4 -> [strategy |-> "networkFirst", cacheName |-> DYNAMIC_CACHE]
    [] i = 5 -> [strategy |-> "networkFirst", cacheName |-> DYNAMIC_CACHE]
RuleTrims(i) ==
  CASE i = 2 -> <<IMAGE_CACHE>>
    [] i = 4 -> <<DYNAMIC_CACHE>>
    [] OTHER -> <<>>
FirstRule(request) ==
  CHOOSE i \in 1 .. 5 :
    RuleMatches(i, request) /\ \A j \in 1 .. i - 1 : ~RuleMatches(j, request)

HeldUrls ==
  UNION {Range(cacheKeys[c]) : c \in CacheNames}
    \cup UNION {DOMAIN cacheResponses[c] : c \in CacheNames}
    \cup {p.url : p \in puts}
    \cup {handlers[h].request.url : h \in {g \in Handlers : handlers[g].pc # "idle"}}

\* C22: the worker handles and caches a cross-origin request only when its
\* host is cdn.jsdelivr.net or unpkg.com; a request to any other host, a
\* host whose name contains one of the two included, passes through.
C22_OnlyAllowListedHosts ==
  \A url \in HeldUrls :
    CrossOrigin(url) => url.hostname \in ALLOWED_CDN_DOMAINS

\* a URL of the API or of a font provider
Reserved(url) == IsApi(url) \/ url.hostname \in FontProviders

\* C23: no cache ever holds, and no strategy ever runs for, a request whose
\* path starts with /api/, whose host starts with api. or whose host is
\* fonts.googleapis.com or fonts.gstatic.com; the listener leaves each of
\* them to the browser, with a .js, .css or .png path too.
C23_ReservedNeverCached ==
  /\ \A url \in HeldUrls : ~Reserved(url)
  /\ \A request \in IsolationRequests :
       Reserved(request.url) =>
         RespondWithCalls(request) = <<>> /\ WaitUntilCalls(request) = <<>>

C23_Witness ==
  /\ passed = <<ApiJs>>
  /\ CdnJs.url \in DOMAIN cacheResponses[STATIC_CACHE]
  /\ \E h \in Handlers : handlers[h].pc = "fetch"

\* names of the app family, of a legacy app, and of the current version
InFamily(name) == NameParts(name)[1] = "sudobility-"
IsLegacy(name) == NameParts(name)[1] \in {"web3mail-", "shapeshyft-"}
CurrentVersion ==
  {"sudobility-static-v1", "sudobility-dynamic-v1", "sudobility-images-v1"}
\* the names an activation has to delete among names
Outdated(names) ==
  {name \in names :
     (InFamily(name) /\ name \notin CurrentVersion) \/ IsLegacy(name)}

\* C24: for every set of existing cache names an activation deletes
\* exactly the names of the family that are not a current one and the
\* names with a legacy prefix, leaves the current caches, their entries
\* and every unrelated name in place, and claims the clients only when all
\* those deletions are done.
C24_ActivateDeletes ==
  activate.pc # "idle" =>
    /\ activate.deleted \cup activate.pending = Outdated(activate.names)
    /\ storage = activate.names \ activate.deleted
    /\ <<cacheKeys, cacheResponses>> = activate.entries
    /\ activate.claimed =>
         /\ activate.deleted = Outdated(activate.names)
         /\ storage = activate.names \ Outdated(activate.names)

C24_Witness ==
  /\ activate.claimed
  /\ activate.names = StorageNames
  /\ activate.deleted = {OldStaticCache, Web3mailCache, ShapeshyftCache}
  /\ storage = CurrentVersion \cup {WorkboxCache, MyStaticCache}

\* C25: an activation on a set of names that holds only current and
\* unrelated names, as the set an earlier activation left does, deletes
\* nothing and leaves the names and the entries as they were.
C25_ActivateIdempotent ==
  /\ activate.run > 1 => Outdated(activate.names) = {}
  /\ activate.pc # "idle" /\ Outdated(activate.names) = {} =>
       /\ activate.pending = {}
       /\ activate.deleted = {}
       /\ storage = activate.names
       /\ <<cacheKeys, cacheResponses>> = activate.entries

C25_Witness ==
  /\ activate.run = 2
  /\ activate.claimed
  /\ activate.earlier = {OldStaticCache, Web3mailCache, ShapeshyftCache}
  /\ activate.deleted = {}
  /\ storage = CurrentVersion \cup {WorkboxCache, MyStaticCache}

\* the critical set: the document root and the manifest
CriticalSet ==
  {[protocol |-> Https, hostname |-> ExampleCom, pathname |-> <<"/">>],
   [protocol |-> Https, hostname |-> ExampleCom,
    pathname |-> <<"/", "manifest", ".", "json">>]}

\* C26: an install event ends only when cache.addAll has settled; when it
\* ends well the static cache holds an ok response for / and for
\* /manifest.json; when addAll fails the install fails and the caches are
\* as before; and the install listener has called skipWaiting once,
\* whatever messages the clients sent.
C26_Install ==
  /\ install.pc # "idle" =>
       Cardinality({i \in DOMAIN install.skipWaiting :
                      install.skipWaiting[i] = "install"}) = 1
  /\ install.addAll = "pending" => install.pc = "installing"
  /\ install.pc = "installed" =>
       /\ install.addAll = "fulfilled"
       /\ \A url \in CriticalSet :
            /\ url \in Range(cacheKeys[STATIC_CACHE])
            /\ url \in DOMAIN cacheResponses[STATIC_CACHE]
            /\ cacheResponses[STATIC_CACHE][url].ok
  /\ install.addAll = "rejected" =>
       /\ install.pc \in {"installing", "redundant"}
       /\ <<cacheKeys, cacheResponses>> = install.entries
  /\ install.pc = "redundant" => install.addAll = "rejected"

C26_Witness ==
  /\ install.pc = "installed"
  /\ install.entries[1][STATIC_CACHE] = <<>>
  /\ Range(cacheKeys[STATIC_CACHE]) = CriticalSet
  /\ messages = <<>>
  /\ install.skipWaiting = <<"install">>

\* the records of the dynamic cache, oldest first
Records == cacheKeys[DYNAMIC_CACHE]

\* the step of a replay that succeeded: the record is deleted, the others
\* stay as they are
ReplayDeletes(url) ==
  /\ cacheKeys' = [cacheKeys EXCEPT ![DYNAMIC_CACHE] =
                     SelectSeq(@, LAMBDA k : k # url)]
  /\ cacheResponses' = [cacheResponses EXCEPT ![DYNAMIC_CACHE] =
                          [k \in DOMAIN @ \ {url} |-> @[k]]]

Parseable == push.payload.kind = "text" /\ push.payload.wellFormed
\* the member name of the payload's value is present
Present(name) ==
  push.payload.value.type = "object"
    /\ name \in DOMAIN push.payload.value.members
Defaults ==
  [title |-> "Notification", icon |-> "/favicon-192.png",
   badge |-> "/favicon-96.png"]
\* a push without payload or with an unparseable one: nothing shown,
\* nothing thrown
SilentNoOp == push.shown = <<>> /\ ~push.threw

\* C28 as stated: without payload or with an unparseable one the listener
\* shows nothing and throws nothing; with a parseable payload it shows
\* exactly one notification, whose title, icon and badge are the payload's
\* when the payload has them and Notification, /favicon-192.png and
\* /favicon-96.png when it has not.
C28_PushAsStated ==
  push.pc = "returned" =>
    /\ ~Parseable => SilentNoOp
    /\ Parseable =>
         /\ Len(push.shown) = 1
         /\ \A name \in {"title", "icon", "badge"} :
              push.shown[1][name] =
                IF Present(name) THEN push.payload.value.members[name]
                ELSE Defaults[name]

\* C28, amended: the JSON value null is a silent no-op too, and a title,
\* icon or badge that is the empty string is replaced by its default.
C28_Push ==
  push.pc = "returned" =>
    /\ ~Parseable \/ push.payload.value.type = "null" => SilentNoOp
    /\ Parseable /\ push.payload.value.type # "null" =>
         /\ Len(push.shown) = 1
         /\ \A name \in {"title", "icon", "badge"} :
              push.shown[1][name] =
                IF Present(name) /\ push.payload.value.members[name] # ""
                  THEN push.payload.value.members[name]
                  ELSE Defaults[name]

C28_Witness ==
  /\ push.pc = "returned"
  /\ Present("title") /\ push.payload.value.members["title"] = ""
  /\ Present("icon") /\ push.payload.value.members["icon"] = "/icon.png"
  /\ ~Present("badge")
  /\ Len(push.shown) = 1
  /\ push.shown[1].title = "Notification"
  /\ push.shown[1].icon = "/icon.png"
  /\ push.shown[1].badge = "/favicon-96.png"

\* the target of a click: the url of the notification's data, / without one
ClickTarget ==
  IF click.data.defined /\ click.data.url \notin {"undefined", ""}
    THEN click.data.url ELSE "/"
\* the window clients that are at the target
AtTarget == {i \in DOMAIN click.clients : click.clients[i] = ClickTarget}

\* C29: the listener closes the notification before anything else; for
\* the action dismiss it does nothing more; for any other action it
\* focuses one window client whose url equals the target and opens no
\* window, or, when no client is at the target, opens one window at the
\* target and focuses nothing.
C29_NotificationClick ==
  /\ click.pc \in {"matchAll", "returned"} =>
       click.calls[1] = [call |-> "close", client |-> 0, url |-> ""]
  /\ click.pc \in {"matchAll", "returned"} /\ click.action = "dismiss" =>
       click.pc = "returned" /\ Len(click.calls) = 1
  /\ click.pc = "returned" /\ click.action # "dismiss" =>
       /\ Len(click.calls) = 2
       /\ IF AtTarget # {}
            THEN /\ click.calls[2].call = "focus"
                 /\ click.calls[2].client \in AtTarget
            ELSE click.calls[2] =
                   [call |-> "openWindow", client |-> 0, url |-> ClickTarget]

C29_Witness ==
  /\ click.pc = "returned"
  /\ click.action = "open"
  /\ click.data.url = "https://example.com/inbox"
  /\ click.clients = <<"https://example.com/", "https://example.com/inbox">>
  /\ click.calls[2] = [call |-> "focus", client |-> 2, url |-> ""]

\* the delay after which a banner shown with this interval is to be hidden:
\* the interval, 5000 ms when it is left out, and no delay at all when it
\* is 0
AutoDismisses(interval) == ~ interval.defined \/ interval.ms # 0
StatedDelay(interval) == IF interval.defined THEN interval.ms ELSE 5000
\* the time at which the timer of the banner on display is due
DueTime == info.shownAt + StatedDelay(info.state.duration)

\* C30: after show the banner is visible, and it stays visible until it is
\* dismissed, replaced by a later show, or its interval has elapsed (5000
\* ms when the interval is left out); it is hidden by a timer at exactly
\* that time and never when the interval is 0.  At most one dismiss timer
\* is pending at any time, it is the timer of the banner on display, and a
\* banner is never hidden by the timer of an earlier show.
C30_AutoDismiss ==
  /\ Cardinality(info.timers) <= 1
  /\ \A t \in info.timers :
       /\ t.id = info.dismissTimeoutId
       /\ t.of = info.banner
       /\ t.due = DueTime
       /\ info.state.isVisible
  /\ info.state.isVisible <=> (info.shows > 0 /\ info.hidden.by = "none")
  /\ info.state.isVisible =>
       IF AutoDismisses(info.state.duration)
       THEN info.timers # {} /\ info.time <= DueTime
       ELSE info.timers = {}
  /\ info.hidden.by = "timer" =>
       /\ info.hidden.of = info.banner
       /\ AutoDismisses(info.state.duration)
       /\ info.hidden.at = DueTime

\* the second banner replaced the first one while the timer of the first
\* was pending, and was hidden by its own timer
C30_Witness ==
  /\ info.shows = 2
  /\ info.shownAt > 0
  /\ info.shownAt < DEFAULT_DISMISS_AFTER
  /\ info.hidden.by = "timer"
  /\ info.hidden.of = 2
  /\ ~ info.state.isVisible

\* the listeners that are subscribed, and the calls a listener received
\* from the last operation
Subscribed == {info.listeners[k] : k \in 1 .. Len(info.listeners)}
CallsTo(l) == Cardinality({k \in 1 .. Len(info.calls) : info.calls[k].listener = l})
Delivered == {info.calls[k].state : k \in 1 .. Len(info.calls)}
\* the calls of the last operation went to exactly the listeners in S,
\* once each, with the state the service has now
NotifiedOnce(S) ==
  /\ \A l \in S : CallsTo(l) = 1
  /\ \A k \in 1 .. Len(info.calls) : info.calls[k].listener \in S
  /\ Delivered \subseteq {info.state}

C31_Invariant ==
  /\ info.op = "subscribe" =>
       info.listener \in Subscribed /\ NotifiedOnce({info.listener})
  /\ info.op = "show" => info.state.isVisible /\ NotifiedOnce(Subscribed)
  /\ info.op \in {"dismiss", "timer"} =>
       ~ info.state.isVisible /\ NotifiedOnce(Subscribed)
  /\ info.op = "unsubscribe" =>
       info.listener \notin Subscribed /\ NotifiedOnce({})

C31_Step ==
  /\ info'.op = "subscribe" => Subscribed' = Subscribed \cup {info'.listener}
  /\ info'.op = "unsubscribe" => Subscribed' = Subscribed \ {info'.listener}
  /\ info'.op \in {"show", "dismiss", "timer"} => Subscribed' = Subscribed

\* C31: subscribe calls the listener once, at once, with the current state;
\* every show and every dismiss (by the application or by the timer) calls
\* each listener that is subscribed exactly once with the new state and
\* calls no other listener; calling a listener's unsubscribe function
\* removes that listener and no other, and calls nobody.
C31_Subscription == [] C31_Invariant /\ [][C31_Step]_vars

\* a show notified one listener after the other listener had unsubscribed
C31_Witness ==
  /\ info.op = "show"
  /\ info.returned = {1, 2}
  /\ Subscribed = {2}
  /\ Len(info.calls) = 1

\* the place of an optional step in the stated order; 0 for a core service
StatedRank(call) ==
  CASE call = "initializeRevenueCat" -> 1
    [] call = "initializeI18n" -> 2
    [] call \in {"register", "registerServiceWorker"} -> 3
    [] call = "initWebVitals" -> 4
    [] OTHER -> 0
TimesCalled(call) ==
  Cardinality({k \in 1 .. Len(app.calls) : app.calls[k] = call})
\* the calls made after the five core services
OptionalCalls == SubSeq(app.calls, 6, Len(app.calls))

\* C32: once initializeWebApp has been called, its first five calls are
\* storage, firebase, analytics, network, info in this order; every later
\* call is an optional step, and the optional steps come in the order
\* RevenueCat, i18n, service-worker registration, web vitals, each at most
\* once.  With registerServiceWorker true only the shared registration is
\* invoked, exactly once by the time the function returns; with a function
\* only that function is; with the option absent or false neither is.
C32_InitializationOrder ==
  app.pc # "idle" =>
    /\ Len(app.calls) >= 5
    /\ SubSeq(app.calls, 1, 5) =
         <<"initializeStorageService", "initializeFirebaseService",
           "initializeFirebaseAnalytics", "initializeNetworkService",
           "initializeInfoService">>
    /\ \A k \in 1 .. Len(OptionalCalls) : StatedRank(OptionalCalls[k]) > 0
    /\ \A j, k \in 1 .. Len(OptionalCalls) :
         j < k => StatedRank(OptionalCalls[j]) < StatedRank(OptionalCalls[k])
    /\ TimesCalled("register") =
         IF app.options.registerServiceWorker = "true" /\ app.pc = "returned"
         THEN 1 ELSE 0
    /\ TimesCalled("registerServiceWorker") =
         IF app.options.registerServiceWorker = "function"
            /\ app.pc = "returned"
         THEN 1 ELSE 0
    /\ app.pc = "returned" =>
         /\ TimesCalled("initializeRevenueCat") =
              (IF app.options.revenueCat = "absent" THEN 0 ELSE 1)
         /\ TimesCalled("initializeI18n") =
              (IF app.options.initializeI18n THEN 1 ELSE 0)
         /\ TimesCalled("initWebVitals") =
              (IF app.options.initWebVitals THEN 1 ELSE 0)

\* every optional step ran, with the shared registration, after an awaited
\* RevenueCat initialisation that needed a second attempt
C32_Witness ==
  /\ app.pc = "returned"
  /\ app.options.revenueCat = "eager"
  /\ app.rc.outcomes = <<"failed", "ok">>
  /\ OptionalCalls = <<"initializeRevenueCat", "initializeI18n", "register",
                       "initWebVitals">>

\* N: the maxRetries of the configuration, 2 when it is left out
StatedRetries == IF app.options.maxRetries = <<>> THEN 2
                 ELSE app.options.maxRetries[1]
AllAttemptsFailed ==
  /\ Len(app.rc.outcomes) = StatedRetries + 1
  /\ \A k \in 1 .. Len(app.rc.outcomes) : app.rc.outcomes[k] = "failed"
\* the failed attempts that are followed by another attempt
FailedBeforeLast ==
  {k \in 1 .. Len(app.rc.outcomes) :
     app.rc.outcomes[k] = "failed" /\ k <= StatedRetries}

\* C33: initializeRevenueCat makes at most N + 1 attempts and none after a
\* successful one; after failed attempt a (counted from 0) that is not the
\* last it waits 1000 * 2^a ms, in full, before the next attempt; a given
\* onError is called once when all N + 1 attempts have failed and not at
\* all otherwise; the promise of initializeWebApp is never rejected, and
\* when nothing is left to run it has resolved with the analytics service.
C33_RevenueCatRetry ==
  /\ Len(app.rc.outcomes) <= StatedRetries + 1
  /\ \A k \in 1 .. Len(app.rc.outcomes) - 1 : app.rc.outcomes[k] = "failed"
  /\ Len(app.rc.delays) = Cardinality(FailedBeforeLast)
  /\ \A k \in 1 .. Len(app.rc.delays) : app.rc.delays[k] = 1000 * Pow(2, k - 1)
  /\ Len(app.rc.waited) <= Len(app.rc.delays)
  /\ Len(app.rc.outcomes) <= Len(app.rc.waited) + 1
  /\ \A k \in 1 .. Len(app.rc.waited) : app.rc.waited[k] = app.rc.delays[k]
  /\ app.rc.onError =
       IF app.options.onError /\ AllAttemptsFailed THEN 1 ELSE 0
  /\ app.result \in {"pending", "analytics"}
  /\ app.pc = "returned" <=> app.result = "analytics"
  /\ (app.pc = "returned" /\ app.options.revenueCat = "eager") =>
       app.rc.pc = "returned"
  /\ ~ ENABLED NextApp =>
       app.result = "analytics" /\ app.rc.pc \in {"none", "returned"}

\* all three attempts of the default configuration failed, onError was
\* called, and initializeWebApp resolved
C33_Witness ==
  /\ app.options.maxRetries = <<>>
  /\ app.options.onError
  /\ app.options.revenueCat = "eager"
  /\ app.rc.outcomes = <<"failed", "failed", "failed">>
  /\ app.rc.waited = <<1000, 2000>>
  /\ app.rc.onError = 1
  /\ app.result = "analytics"

\* the network answered this run with a response that is not 2xx
NonOk(H) == H.fetched # <<>> /\ ~ H.fetched[1].ok
\* every response in a cache, or on its way into one, is 2xx
OnlyOkStored ==
  /\ \A c \in CacheNames : \A k \in DOMAIN cacheResponses[c] :
       cacheResponses[c][k].ok
  /\ \A p \in puts : p.response.ok
\* a response that is not 2xx leaves the caches and the puts as they are
NonOkNotStored ==
  (Settles /\ NonOk(settled')) =>
    puts' = puts /\ UNCHANGED <<cacheKeys, cacheResponses>>
\* the caller of every strategy receives the response that is not 2xx
NonOkReturnedAlways ==
  NonOk(settled) => settled.result = FromNetwork(settled.fetched[1])
\* the caller receives it, except from staleWhileRevalidate with an entry
\* in its cache, which has returned that entry
NonOkReturned ==
  NonOk(settled) =>
    settled.result =
      IF settled.strategy = "staleWhileRevalidate" /\ settled.cached # <<>>
      THEN FromCache(settled.cached[1])
      ELSE FromNetwork(settled.fetched[1])

\* C34 as stated: only 2xx responses are in the caches, and cacheFirst,
\* networkFirst and staleWhileRevalidate return a response that is not 2xx
\* to the caller.
C34_AsStated == OnlyOkStored /\ NonOkReturnedAlways

\* C34: only 2xx responses are ever written to a cache; a response that
\* is not 2xx is never stored and replaces or removes no entry; cacheFirst
\* and networkFirst return it to the caller, staleWhileRevalidate returns
\* it only when it found nothing cached and otherwise has returned the
\* cached entry.
C34_OnlyOkStored ==
  /\ [](OnlyOkStored /\ NonOkReturned)
  /\ [][NonOkNotStored]_vars

\* staleWhileRevalidate returned its cached entry, the network answered
\* "not found", and the entry is still in the cache
C34_Witness ==
  /\ settled.strategy = "staleWhileRevalidate"
  /\ settled.cached # <<>>
  /\ NonOk(settled)
  /\ settled.result = FromCache(settled.cached[1])
  /\ CacheMatch(DYNAMIC_CACHE, settled.request.url) = settled.cached

\* the entries of a cache that leave it in this step
Leaves(c) == Range(cacheKeys[c]) \ Range(cacheKeys'[c])
\* the step is the cache.delete(keys[0]) of a running trimCache on c
EvictionOf(c, k) ==
  trim.pc = "delete" /\ trim.cacheName = c /\ trim.victim = k

\* C35: an entry leaves a current-version cache only through the FIFO
\* eviction of trimCache (a later store under the same key replaces the
\* response and keeps the key); no other operation of the worker deletes
\* an entry.
C35_OnlyEvictionRemoves ==
  [][\A c \in CacheNames : \A k \in Leaves(c) : EvictionOf(c, k)]_vars

\* the smaller of two numbers
Smaller(a, b) == IF a < b THEN a ELSE b

\* C36: with fetch handlers storing into a cache while the trimCache calls
\* of their events run, no step takes an entry out of a cache that holds
\* no more entries than its bound: a cache is never reduced below the
\* smaller of its bound and its live count.
C36_TrimToleratesRaces ==
  [][\A c \in TrimmedCaches :
       Len(cacheKeys'[c]) >= Smaller(CACHE_LIMITS(c), Len(cacheKeys[c]))]_vars

\* a run of cacheFirst whose cache.match resolved with a response that has
\* a date header older than the TTL of the cache
CacheFirstExpired(H) ==
  /\ H.strategy = "cacheFirst"
  /\ H.pc = "settled"
  /\ H.cached # <<>>
  /\ H.cached[1].date # NoDate
  /\ TimeGreater(AgeWhenSettled(H), CACHE_TTL(H.cacheName)[1])
\* cacheFirst settles in this step, having found an expired entry, with an
\* ok response of the network
CacheFirstReplaces ==
  /\ Settles
  /\ CacheFirstExpired(settled')
  /\ settled'.fetched # <<>>
  /\ settled'.fetched[1].ok

PendingRegisters == RegCalls - Len(outcomes)
PendingTimers == Len(delays) - Len(waited)
\* nothing that would belong to a further attempt follows registered
RegisteredIsTerminal ==
  \A i, j \in DOMAIN log :
    i < j /\ log[i] = "registered" =>
      log[j] \notin {"registered", "error", "register()"}

\* C38: within one registerServiceWorker call at most one register call or
\* retry timer is outstanding, and none once registered was delivered;
\* registered is delivered at most once and neither error nor a register
\* call comes after it; the update interval is armed once per resolved
\* register call, so once on success and not at all while every attempt
\* has failed.
C38_SequentialAttempts ==
  /\ PendingRegisters \in {0, 1}
  /\ PendingTimers \in {0, 1}
  /\ PendingRegisters + PendingTimers <= 1
  /\ Count(log, "registered") <= 1
  /\ RegisteredIsTerminal
  /\ Count(log, "registered") = 1 => PendingRegisters + PendingTimers = 0
  /\ intervals = Count(log, "registered")
  /\ intervals = Count(outcomes, "ok")

\* a register call resolved after an earlier one was rejected and its
\* retry timer fired, and a new worker was reported afterwards
C38_Witness ==
  /\ regPc = "registered"
  /\ outcomes = <<"rej", "ok">>
  /\ Len(waited) = 1
  /\ intervals = 1
  /\ log[Len(log)] = "update-available"

\* the cache the listener gives to the strategy of a GET request for a
\* URL that carries no accept header
NamespaceOf(url) == Route(Request("GET", url, <<>>)).cacheName
\* the same-origin URLs of the listed paths
SameOriginUrls == {Url(Https, ExampleCom, path) : path \in UrlPaths}
\* a GET request is handled, and given the same cache, whatever its
\* accept header is
NamespaceByUrl ==
  \A url \in SameOriginUrls \cup NamespaceUrls, accept \in AcceptHeaders \cup NamespaceAccepts :
    LET with == Route(Request("GET", url, accept))
        without == Route(Request("GET", url, <<>>))
    IN /\ (with.strategy = "none") = (without.strategy = "none")
       /\ with.strategy # "none" => with.cacheName = NamespaceOf(url)
\* every strategy that runs, and every put under way, has the cache of
\* its URL
StoredByUrl ==
  /\ \A h \in Handlers :
       handlers[h].pc # "idle" =>
         handlers[h].cacheName = NamespaceOf(handlers[h].request.url)
  /\ \A p \in puts : p.cacheName = NamespaceOf(p.url)
\* the caches that hold an entry for a URL
CachesHolding(url) == {c \in CacheNames : url \in Range(cacheKeys[c])}
OneNamespacePerUrl ==
  \A c \in CacheNames : \A url \in Range(cacheKeys[c]) :
    CachesHolding(url) = {c}

\* C39 as stated: the cache a handled GET request is stored in depends on
\* its URL only, and no URL has entries in two caches.
C39_AsStated ==
  /\ NamespaceByUrl
  /\ StoredByUrl
  /\ OneNamespacePerUrl

\* C39: the cache a handled GET request is stored in depends on its URL
\* only, whatever its accept header, so the fetch listener never stores a
\* URL in two caches; an entry in another cache than that of its URL is an
\* entry of the static cache for a URL of PRECACHE_URLS, stored by the
\* install listener.
C39_NamespaceByUrl ==
  /\ NamespaceByUrl
  /\ StoredByUrl
  /\ \A c \in CacheNames : \A url \in Range(cacheKeys[c]) :
       \/ c = NamespaceOf(url)
       \/ c = STATIC_CACHE /\ url \in Range(PRECACHE_URLS)

\* the response to a request for /data.json with an HTML accept header is
\* on its way into the dynamic cache, which holds the response to an
\* earlier request for the same URL
C39_Witness ==
  /\ settled.pc = "settled"
  /\ settled.request = Request("GET", DataJson.url, <<TextHtml \o <<",">> \o AnyAccept>>)
  /\ \E p \in puts : p.url = DataJson.url /\ p.cacheName = DYNAMIC_CACHE
  /\ DataJson.url \in Range(cacheKeys[DYNAMIC_CACHE])
  /\ CachesHolding(DataJson.url) = {DYNAMIC_CACHE}

====
